---- MODULE Spec2Model ----
(***************************************************************************)
(* A model of ArxivClient (arxiv-database/scripts/arxiv_client.py): the    *)
(* rate limiter, the file cache, the retry loop of _make_request and the   *)
(* entry parser.                                                           *)
(*                                                                         *)
(* Time is a discrete clock of whole seconds.  Text is a sequence of       *)
(* one-character strings, so that substring tests, splitting and           *)
(* whitespace handling are computed rather than assumed.  Python values    *)
(* are tagged records ([t |-> "str", v |-> ...]) and JSON values are       *)
(* tagged records of their own ([j |-> "string", v |-> ...]), so that      *)
(* json.dump / json.load are conversions between two different domains.    *)
(***************************************************************************)
EXTENDS Integers, Sequences, FiniteSets, TLC

(***************************************************************************)
(* Bounds of the model.                                                    *)
(***************************************************************************)
\* largest max_retries a client is constructed with
MaxRetries == 3
\* no request is started, and no idle time passes, once the clock is here
MaxClock == 3
\* number of _make_request calls in one behaviour
MaxCalls == 2

(***************************************************************************)
(* Python values.                                                          *)
(***************************************************************************)
PyNone == [t |-> "NoneType"]

PyStr(s) == [t |-> "str", v |-> s]

PyInt(n) == [t |-> "int", v |-> n]

PyList(xs) == [t |-> "list", v |-> xs]

PyTuple(xs) == [t |-> "tuple", v |-> xs]

PyDict(f) == [t |-> "dict", v |-> f]

IsNone(x) == x.t = "NoneType"

(***************************************************************************)
(* json.dump and json.load.  A JSON text is modelled by the JSON value it  *)
(* denotes: null, string, array or object.  dump writes None as null, str  *)
(* as a string, list and tuple both as an array and dict as an object;     *)
(* load reads null as None, a string as str, an array as list and an       *)
(* object as dict; an int is a number both ways.                           *)
(***************************************************************************)
RECURSIVE json_dump(_)
json_dump(x) ==
    CASE x.t = "NoneType" -> [j |-> "null"]
      [] x.t = "str"      -> [j |-> "string", v |-> x.v]
      [] x.t = "int"      -> [j |-> "number", v |-> x.v]
      [] x.t = "list"     -> [j |-> "array", v |-> [i \in DOMAIN x.v |-> json_dump(x.v[i])]]
      [] x.t = "tuple"    -> [j |-> "array", v |-> [i \in DOMAIN x.v |-> json_dump(x.v[i])]]
      [] x.t = "dict"     -> [j |-> "object", v |-> [k \in DOMAIN x.v |-> json_dump(x.v[k])]]

RECURSIVE json_load(_)
json_load(y) ==
    CASE y.j = "null"   -> PyNone
      [] y.j = "string" -> PyStr(y.v)
      [] y.j = "number" -> PyInt(y.v)
      [] y.j = "array"  -> PyList([i \in DOMAIN y.v |-> json_load(y.v[i])])
      [] y.j = "object" -> PyDict([k \in DOMAIN y.v |-> json_load(y.v[k])])

(***************************************************************************)
(* Text.                                                                   *)
(***************************************************************************)
Contains(s, sub) ==
    \E i \in 1..(Len(s) - Len(sub) + 1) : SubSeq(s, i, i + Len(sub) - 1) = sub

Digits == <<"0", "1", "2", "3", "4", "5", "6", "7", "8", "9">>

IsDigit(c) == \E i \in 1..10 : Digits[i] = c

DigitValue(c) == (CHOOSE i \in 1..10 : Digits[i] = c) - 1

RECURSIVE DecimalText(_)
DecimalText(n) ==
    IF n < 10 THEN <<Digits[n + 1]>>
    ELSE Append(DecimalText(n \div 10), Digits[(n % 10) + 1])

RECURSIVE DecimalValue(_)
DecimalValue(s) ==
    IF Len(s) = 0 THEN 0
    ELSE 10 * DecimalValue(SubSeq(s, 1, Len(s) - 1)) + DigitValue(s[Len(s)])

\* str.split('/')[-1]: the text after the last '/', the whole text without one
RECURSIVE LastSegment(_)
LastSegment(s) ==
    IF Len(s) = 0 THEN <<>>
    ELSE IF s[Len(s)] = "/" THEN <<>>
    ELSE Append(LastSegment(SubSeq(s, 1, Len(s) - 1)), s[Len(s)])

\* number of digits the text ends with
RECURSIVE TrailingDigits(_)
TrailingDigits(s) ==
    IF Len(s) > 0 /\ IsDigit(s[Len(s)])
    THEN 1 + TrailingDigits(SubSeq(s, 1, Len(s) - 1))
    ELSE 0

\* every trailing digit removed, and the 'v' before them
StripVersionBare(s) ==
    LET d == TrailingDigits(s)
    IN  IF d > 0 /\ Len(s) > d /\ s[Len(s) - d] = "v"
        THEN SubSeq(s, 1, Len(s) - d - 1)
        ELSE SubSeq(s, 1, Len(s) - d)

\* re.sub(r'v\d+$', '', s): one trailing 'v' and the digits after it removed
StripVersion(s) ==
    LET d == TrailingDigits(s)
    IN  IF d > 0 /\ Len(s) > d /\ s[Len(s) - d] = "v"
        THEN SubSeq(s, 1, Len(s) - d - 1)
        ELSE s

IsSpace(c) == c \in {" ", "\n", "\t"}

RECURSIVE LStrip(_)
LStrip(s) ==
    IF Len(s) > 0 /\ IsSpace(s[1]) THEN LStrip(Tail(s)) ELSE s

RECURSIVE RStrip(_)
RStrip(s) ==
    IF Len(s) > 0 /\ IsSpace(s[Len(s)]) THEN RStrip(SubSeq(s, 1, Len(s) - 1)) ELSE s

\* str.lstrip()
StripLeading(s) == LStrip(s)

\* str.strip()
Strip(s) == LStrip(RStrip(s))

\* str.replace('\n', ' ')
ReplaceNewlines(s) == [i \in DOMAIN s |-> IF s[i] = "\n" THEN " " ELSE s[i]]

\* re.sub(r'\s+', ' ', s): every run of whitespace becomes one space
RECURSIVE CollapseWhitespace(_)
CollapseWhitespace(s) ==
    IF Len(s) = 0 THEN <<>>
    ELSE IF IsSpace(s[1])
         THEN <<" ">> \o CollapseWhitespace(LStrip(s))
         ELSE <<s[1]>> \o CollapseWhitespace(Tail(s))

(***************************************************************************)
(* Dates.  A timestamp text is a decimal number of seconds, followed by    *)
(* nothing (a naive timestamp), by Z or by +00:00 (a timestamp in UTC); a  *)
(* day has DayLength seconds, and the display date of a timestamp is the   *)
(* number of its day.                                                      *)
(***************************************************************************)
DayLength == 2

UtcOffset == <<"+", "0", "0", ":", "0", "0">>

\* str.replace('Z', '+00:00')
RECURSIVE ReplaceZ(_)
ReplaceZ(s) ==
    IF Len(s) = 0 THEN <<>>
    ELSE (IF s[1] = "Z" THEN UtcOffset ELSE <<s[1]>>) \o ReplaceZ(Tail(s))

Naive(t) == [ok |-> TRUE, aware |-> FALSE, t |-> t]

Aware(t) == [ok |-> TRUE, aware |-> TRUE, t |-> t]

\* the ValueError of datetime.fromisoformat
NoDatetime == [ok |-> FALSE, aware |-> FALSE, t |-> 0]

datetime_fromisoformat(s) ==
    LET n == Len(s) - Len(UtcOffset)
    IN  IF n >= 1 /\ SubSeq(s, n + 1, Len(s)) = UtcOffset
           /\ \A i \in 1..n : IsDigit(s[i])
        THEN Aware(DecimalValue(SubSeq(s, 1, n)))
        ELSE IF Len(s) >= 1 /\ \A i \in DOMAIN s : IsDigit(s[i])
        THEN Naive(DecimalValue(s))
        ELSE NoDatetime

datetime_isoformat(dt) == DecimalText(dt.t) \o (IF dt.aware THEN UtcOffset ELSE <<>>)

\* strftime('%Y-%m-%d')
strftime(dt) == DecimalText(dt.t \div DayLength)

(***************************************************************************)
(* XML entries.  A sub-element is absent, or present with text None (an    *)
(* empty element), or present with a text; an attribute is None when it is *)
(* absent.  An entry carries its id, title, summary, published, updated,   *)
(* doi, journal_ref and comment sub-elements, its authors (each with a     *)
(* name and an affiliation sub-element), the term of its primary category, *)
(* the terms of its categories and the rel, href and type of its links.    *)
(***************************************************************************)
NoElem == [present |-> FALSE, text |-> PyNone]

EmptyElem == [present |-> TRUE, text |-> PyNone]

Elem(s) == [present |-> TRUE, text |-> PyStr(s)]

\* the literal 'Error' of the API error check
ErrorWord == <<"E", "r", "r", "o", "r">>

ApplicationPdf == <<"a", "p", "p", "l", "i", "c", "a", "t", "i", "o", "n", "/", "p", "d", "f">>

AbsUrl == <<"h", "t", "t", "p", "s", ":", "/", "/", "a", "r", "x", "i", "v", ".", "o", "r", "g", "/", "a", "b", "s", "/">>

PdfUrl == <<"h", "t", "t", "p", "s", ":", "/", "/", "a", "r", "x", "i", "v", ".", "o", "r", "g", "/", "p", "d", "f", "/">>

Link(rel, href, type) == [rel |-> rel, href |-> href, type |-> type]

\* an entry with an id and nothing else
Entry(id) ==
    [id |-> id, title |-> NoElem, summary |-> NoElem, authors |-> <<>>,
     published |-> NoElem, updated |-> NoElem,
     primary_category |-> NoElem, categories |-> <<>>, links |-> <<>>,
     doi |-> NoElem, journal_ref |-> NoElem, comment |-> NoElem]

EntryA ==
    [Entry(Elem(<<"h", "/", "a", "/", "1", "2", "v", "3">>)) EXCEPT
        !.title = Elem(<<" ", "A", " ", "\n", "B", " ">>),
        !.summary = Elem(<<"S", "\n", "\n", "T", " ">>),
        !.authors = << [name |-> Elem(<<"N">>), affiliation |-> NoElem],
                       [name |-> EmptyElem, affiliation |-> Elem(<<"U">>)] >>,
        !.published = Elem(<<"5", "Z">>),
        !.primary_category = Elem(<<"c">>),
        !.categories = <<PyStr(<<"c">>)>>,
        !.links = <<Link(PyNone, PyStr(<<"l">>), PyStr(ApplicationPdf))>>]

EntryB ==
    [Entry(Elem(<<"h", "/", "a", "/", "7">>)) EXCEPT
        !.title = Elem(<<"N", "o", " ">> \o ErrorWord \o <<"s">>),
        !.doi = Elem(<<"d">>)]

\* what the API answers to a bad query: one entry whose title says Error
EntryError ==
    [Entry(Elem(<<"h", "/", "e">>)) EXCEPT
        !.title = Elem(ErrorWord),
        !.summary = Elem(<<"b", "a", "d">>)]

\* an entry whose title element is empty
EntryEmptyTitle ==
    [Entry(Elem(<<"h", "/", "a", "/", "9">>)) EXCEPT !.title = EmptyElem]

Feeds == {<<>>, <<EntryA>>, <<EntryA, EntryB>>, <<EntryError>>, <<EntryEmptyTitle>>}

(***************************************************************************)
(* _parse_entry.  The outcome is the record, or the exception raised.      *)
(***************************************************************************)
Returned(x) == [kind |-> "return", value |-> x, exc |-> "", text |-> "", retries |-> 0, status |-> 0]

Raised(e, msg, n, st) ==
    [kind |-> "raise", value |-> PyNone, exc |-> e, text |-> msg, retries |-> n, status |-> st]

\* the texts of the sub-elements named `field` that the authors have
SubElementTexts(authors, field) ==
    LET F[n \in 0..Len(authors)] ==
            IF n = 0 THEN <<>>
            ELSE IF authors[n][field].present
                 THEN Append(F[n - 1], authors[n][field].text)
                 ELSE F[n - 1]
    IN  F[Len(authors)]

\* the key of a link were the relation looked at before the media type
LinkKeyByRelation(link) ==
    LET rel == IF IsNone(link.rel) THEN <<"a", "l", "t", "e", "r", "n", "a", "t", "e">> ELSE link.rel.v
        link_type == IF IsNone(link.type) THEN <<>> ELSE link.type.v
    IN  IF rel = <<"a", "l", "t", "e", "r", "n", "a", "t", "e">> THEN <<"a", "b", "s", "t", "r", "a", "c", "t">>
        ELSE IF link_type = ApplicationPdf THEN <<"p", "d", "f">>
        ELSE rel

\* the key a link is stored under
LinkKey(link) ==
    LET rel == IF IsNone(link.rel) THEN <<"a", "l", "t", "e", "r", "n", "a", "t", "e">> ELSE link.rel.v
        link_type == IF IsNone(link.type) THEN <<>> ELSE link.type.v
    IN  IF link_type = ApplicationPdf THEN <<"p", "d", "f">>
        ELSE IF rel = <<"a", "l", "t", "e", "r", "n", "a", "t", "e">> THEN <<"a", "b", "s", "t", "r", "a", "c", "t">>
        ELSE rel

\* the dictionary the loop over the links builds: a later link replaces an
\* earlier one of the same key
LinksDict(links) ==
    LET keys == {LinkKey(links[i]) : i \in DOMAIN links}
        Last(k) == CHOOSE i \in DOMAIN links :
                       /\ LinkKey(links[i]) = k
                       /\ \A j \in DOMAIN links : LinkKey(links[j]) = k => j <= i
    IN  [k \in keys |->
            IF IsNone(links[Last(k)].href) THEN PyStr(<<>>) ELSE links[Last(k)].href]

\* published_elem.text if published_elem is not None else "", then
\* fromisoformat(published.replace('Z', '+00:00')) under except ValueError
ParseDate(elem) ==
    datetime_fromisoformat(ReplaceZ(IF elem.present THEN elem.text.v ELSE <<>>))

_parse_entry(entry) ==
    LET arxiv_url == IF entry.id.present THEN entry.id.text ELSE PyStr(<<>>)
        \* "if arxiv_url": None and "" are both false
        arxiv_id == IF IsNone(arxiv_url) \/ arxiv_url.v = <<>>
                    THEN <<>> ELSE LastSegment(arxiv_url.v)
        base_id == StripVersion(arxiv_id)
        title == IF entry.title.present
                 THEN CollapseWhitespace(ReplaceNewlines(Strip(entry.title.text.v)))
                 ELSE <<>>
        authors == SubElementTexts(entry.authors, "name")
        affiliations == SubElementTexts(entry.authors, "affiliation")
        abstract == IF entry.summary.present
                    THEN CollapseWhitespace(Strip(entry.summary.text.v))
                    ELSE <<>>
        published_dt == ParseDate(entry.published)
        updated_dt == ParseDate(entry.updated)
        primary_category == IF entry.primary_category.present
                            THEN entry.primary_category.text ELSE PyStr(<<>>)
        doi == IF entry.doi.present THEN entry.doi.text ELSE PyNone
        journal_ref == IF entry.journal_ref.present THEN entry.journal_ref.text ELSE PyNone
        comment == IF entry.comment.present THEN entry.comment.text ELSE PyNone
    IN  IF \/ entry.title.present /\ IsNone(entry.title.text)
           \/ entry.summary.present /\ IsNone(entry.summary.text)
           \/ entry.published.present /\ IsNone(entry.published.text)
           \/ entry.updated.present /\ IsNone(entry.updated.text)
        THEN \* None.strip(), None.replace('Z', '+00:00')
             Raised("AttributeError", "", 0, 0)
        ELSE Returned(PyDict(
                 [arxiv_id |-> PyStr(arxiv_id),
                  base_id |-> PyStr(base_id),
                  title |-> PyStr(title),
                  authors |-> PyList(authors),
                  affiliations |-> PyList(affiliations),
                  abstract |-> PyStr(abstract),
                  published |-> PyStr(IF published_dt.ok THEN strftime(published_dt)
                                      ELSE <<>>),
                  published_datetime |-> IF published_dt.ok
                                         THEN PyStr(datetime_isoformat(published_dt))
                                         ELSE PyNone,
                  updated |-> PyStr(IF updated_dt.ok THEN strftime(updated_dt) ELSE <<>>),
                  updated_datetime |-> IF updated_dt.ok
                                       THEN PyStr(datetime_isoformat(updated_dt))
                                       ELSE PyNone,
                  primary_category |-> primary_category,
                  categories |-> PyList(entry.categories),
                  doi |-> doi,
                  journal_ref |-> journal_ref,
                  comment |-> comment,
                  arxiv_url |-> PyStr(AbsUrl \o base_id),
                  pdf_url |-> PyStr(PdfUrl \o base_id \o <<".", "p", "d", "f">>),
                  links |-> PyDict(LinksDict(entry.links))]))

\* [self._parse_entry(entry) for entry in entries]
ParseEntries(entries) ==
    IF \E i \in DOMAIN entries : _parse_entry(entries[i]).kind = "raise"
    THEN Raised("AttributeError", "", 0, 0)
    ELSE Returned(PyList([i \in DOMAIN entries |-> _parse_entry(entries[i]).value]))

(***************************************************************************)
(* The cache: one file per cache key under cache_dir.  A key is the md5    *)
(* digest of json.dumps(params, sort_keys=True); the digest is modelled by *)
(* the text it digests (the pairs in key order), which is what two equal   *)
(* digests stand for.  A parameter mapping is the sequence of its pairs    *)
(* <<name, value>> in insertion order.                                     *)
(***************************************************************************)
\* the position of a parameter name in the sorted order of the names
KeyRank(k) ==
    CASE k = "id_list" -> 1
      [] k = "max_results" -> 2
      [] k = "search_query" -> 3
      [] k = "sortBy" -> 4
      [] k = "sortOrder" -> 5
      [] k = "start" -> 6

\* the pairs of a mapping in the order of their names
SortKeys(params) ==
    LET ranks == {KeyRank(params[i][1]) : i \in DOMAIN params}
        Nth(n) == CHOOSE r \in ranks : Cardinality({q \in ranks : q < r}) = n - 1
        At(r) == CHOOSE i \in DOMAIN params : KeyRank(params[i][1]) = r
    IN  [n \in 1..Cardinality(ranks) |-> params[At(Nth(n))]]

\* _get_cache_key without sort_keys=True
_get_cache_key_unsorted(params) ==
    [n \in DOMAIN params |-> <<params[n][1], json_dump(params[n][2])>>]

_get_cache_key(params) ==
    LET sorted == SortKeys(params)
    IN  [n \in DOMAIN sorted |-> <<sorted[n][1], json_dump(sorted[n][2])>>]

\* datetime.isoformat() and datetime.fromisoformat(), on a clock of seconds
isoformat(now) == DecimalText(now)

fromisoformat(s) == DecimalValue(s)

NoFile == [exists |-> FALSE, content |-> [j |-> "null"]]

File(c) == [exists |-> TRUE, content |-> c]

\* _get_cached with <= for < in the comparison with the ttl
_get_cached_inclusive(dir, files, ttl, now, cache_key) ==
    IF ~dir THEN PyNone
    ELSE IF files[cache_key].exists
         THEN LET cached == json_load(files[cache_key].content)
                  cached_time == fromisoformat(cached.v.timestamp.v)
              IN  IF now - cached_time <= ttl THEN cached.v.results ELSE PyNone
         ELSE PyNone

\* _get_cached that looks for the file under a name _set_cached never wrote
_get_cached_elsewhere(dir, files, ttl, now, cache_key) == PyNone

_get_cached(dir, files, ttl, now, cache_key) ==
    IF ~dir THEN PyNone
    ELSE IF files[cache_key].exists
         THEN LET cached == json_load(files[cache_key].content)
                  cached_time == fromisoformat(cached.v.timestamp.v)
              IN  IF now - cached_time < ttl THEN cached.v.results ELSE PyNone
         ELSE PyNone

\* _set_cached that leaves an existing file alone
_set_cached_once(dir, files, now, cache_key, results) ==
    IF ~dir \/ files[cache_key].exists THEN files
    ELSE [files EXCEPT ![cache_key] =
             File(json_dump(PyDict([timestamp |-> PyStr(isoformat(now)),
                                    results |-> results])))]

\* _set_cached that writes the file whether or not a cache_dir is set
_set_cached_unguarded(dir, files, now, cache_key, results) ==
    [files EXCEPT ![cache_key] =
        File(json_dump(PyDict([timestamp |-> PyStr(isoformat(now)),
                               results |-> results])))]

_set_cached(dir, files, now, cache_key, results) ==
    IF ~dir THEN files
    ELSE [files EXCEPT ![cache_key] =
             File(json_dump(PyDict([timestamp |-> PyStr(isoformat(now)),
                                    results |-> results])))]

(***************************************************************************)
(* _rate_limit: how long it sleeps when called at `now`.                   *)
(***************************************************************************)
\* RateLimitSleep measuring from the start of the previous wait, not its end
RateLimitSleepShort(last, delay, now) ==
    LET elapsed == now - last
    IN  IF elapsed < delay - 1 THEN delay - 1 - elapsed ELSE 0

\* _rate_limit that never sleeps
RateLimitSleepNever(last, delay, now) == 0

\* _rate_limit that sleeps the whole delay at every call
RateLimitSleepFull(last, delay, now) == delay

RateLimitSleep(last, delay, now) ==
    LET elapsed == now - last
    IN  IF elapsed < delay THEN delay - elapsed ELSE 0

(***************************************************************************)
(* What requests.get does: it raises Timeout or ConnectionError, or it     *)
(* returns a response with a status and a body.  The body of a 200         *)
(* response is XML that does not parse, or a feed of entries.              *)
(***************************************************************************)
Timeout == [kind |-> "Timeout", status_code |-> 0, xml |-> FALSE, entries |-> <<>>]

ConnectionError == [kind |-> "ConnectionError", status_code |-> 0, xml |-> FALSE, entries |-> <<>>]

Status(n) == [kind |-> "response", status_code |-> n, xml |-> FALSE, entries |-> <<>>]

Malformed == [kind |-> "response", status_code |-> 200, xml |-> FALSE, entries |-> <<>>]

Feed(es) == [kind |-> "response", status_code |-> 200, xml |-> TRUE, entries |-> es]

Statuses == {204, 404, 500}

Responses ==
    {Timeout, ConnectionError, Malformed}
        \cup {Status(n) : n \in Statuses} \cup {Feed(es) : es \in Feeds}

\* the parameter mappings requests are made with
ParamsA == << <<"id_list", PyStr(<<"1">>)>>, <<"max_results", PyInt(1)>> >>

ParamsB == << <<"id_list", PyStr(<<"1">>)>>, <<"max_results", PyInt(2)>> >>

ParamSets == {ParamsA, ParamsB}

CacheKeys == {_get_cache_key(p) : p \in ParamSets}

\* rate_limit_delay, in seconds (3 is the default)
Delays == {1, 3}

\* cache_ttl, in seconds
Ttls == {0, 2}

\* time.time() when the client is constructed: no less than any delay
StartTime == 3

(***************************************************************************)
(* One pass of the retry loop of _make_request, after its _rate_limit      *)
(* call: what the response leads to.  next is "return" or "raise" (the     *)
(* call ends with `result`) or "continue" (the loop goes on, after         *)
(* sleeping `sleep` seconds when slept is TRUE).                           *)
(***************************************************************************)
Continue(slept, w) == [next |-> "continue", slept |-> slept, sleep |-> w, result |-> Returned(PyNone)]

End(r) == [next |-> r.kind, slept |-> FALSE, sleep |-> 0, result |-> r]

\* 2 ** attempt
RECURSIVE Pow2(_)
Pow2(n) == IF n = 0 THEN 1 ELSE 2 * Pow2(n - 1)

\* the check for an error response: one entry whose title has 'Error' in it
IsApiError(entries) ==
    /\ Len(entries) = 1
    /\ entries[1].title.present
    /\ ~IsNone(entries[1].title.text)
    /\ entries[1].title.text.v # <<>>
    /\ Contains(entries[1].title.text.v, ErrorWord)

\* OnTimeout that waits one second before every retry
OnTimeoutFlat(attempt, retries) ==
    IF attempt < retries - 1
    THEN Continue(TRUE, 1)
    ELSE End(Raised("Exception", "Request timed out after", retries, 0))

\* except requests.exceptions.Timeout
OnTimeout(attempt, retries) ==
    IF attempt < retries - 1
    THEN Continue(TRUE, Pow2(attempt))
    ELSE End(Raised("Exception", "Request timed out after", retries, 0))

\* except requests.exceptions.ConnectionError
OnConnectionError(attempt, retries) ==
    IF attempt < retries - 1
    THEN Continue(TRUE, Pow2(attempt))
    ELSE End(Raised("Exception", "Connection failed after", retries, 0))

\* OnOk without the check for an API error
OnOkUnchecked(resp) ==
    IF ~resp.xml
    THEN End(Raised("Exception", "Failed to parse ArXiv response", 0, 0))
    ELSE End(ParseEntries(resp.entries))

\* status 200: the body is parsed, checked for an API error and converted
OnOk(resp) ==
    IF ~resp.xml
    THEN End(Raised("Exception", "Failed to parse ArXiv response", 0, 0))
    ELSE IF IsApiError(resp.entries)
    THEN End(Raised("Exception", "ArXiv API Error", 0, 0))
    ELSE End(ParseEntries(resp.entries))

\* OnServerError with 2 * attempt for 2 ** attempt
OnServerErrorLinear(attempt) == Continue(TRUE, 2 * attempt)

\* status >= 500: sleep, and go round the loop
OnServerError(attempt) == Continue(TRUE, Pow2(attempt))

\* OnOtherStatus with no raise_for_status(): the loop goes on
OnOtherStatusIgnored(resp) == Continue(FALSE, 0)

\* any other status: raise_for_status() raises for 400 <= status < 600, and
\* returns otherwise
OnOtherStatus(resp) ==
    IF resp.status_code >= 400 /\ resp.status_code < 600
    THEN End(Raised("HTTPError", "", 0, resp.status_code))
    ELSE Continue(FALSE, 0)

HandleResponse(resp, attempt, retries) ==
    CASE resp.kind = "Timeout" -> OnTimeout(attempt, retries)
      [] resp.kind = "ConnectionError" -> OnConnectionError(attempt, retries)
      [] resp.kind = "response" /\ resp.status_code = 200 -> OnOk(resp)
      [] resp.kind = "response" /\ resp.status_code # 200 /\ resp.status_code >= 500 ->
            OnServerError(attempt)
      [] OTHER -> OnOtherStatus(resp)

\* FilesAfter with the records stored before the response is examined
FilesAfterEager(h, dir, fs, now, cache_key) ==
    IF h.next = "continue" THEN fs
    ELSE _set_cached(dir, fs, now, cache_key,
                     IF h.next = "return" THEN h.result.value ELSE PyList(<<>>))

\* FilesAfter that unlinks the key's file when the call ends in an error
FilesAfterInvalidating(h, dir, fs, now, cache_key) ==
    IF h.next = "return" THEN _set_cached(dir, fs, now, cache_key, h.result.value)
    ELSE IF h.next = "raise" /\ dir THEN [fs EXCEPT ![cache_key] = NoFile]
    ELSE fs

\* the cache files after a pass of the loop that ended as h says: the records
\* are stored only on the way to `return papers`
FilesAfter(h, dir, fs, now, cache_key) ==
    IF h.next = "return" THEN _set_cached(dir, fs, now, cache_key, h.result.value) ELSE fs

\* a transient failure: a timeout, a connection error or a status >= 500
IsTransient(resp) ==
    \/ resp.kind \in {"Timeout", "ConnectionError"}
    \/ resp.kind = "response" /\ resp.status_code >= 500

NoResponse == [kind |-> "none", status_code |-> 0, xml |-> FALSE, entries |-> <<>>]

\* the callers that share one client
NumCallers == 2

Callers == 1..NumCallers

(***************************************************************************)
(* The state.                                                              *)
(***************************************************************************)
VARIABLES
    clock,              \* time.time(), in seconds
    rate_limit_delay,   \* self.rate_limit_delay
    max_retries,        \* self.max_retries
    cache_dir,          \* whether self.cache_dir is set
    cache_ttl,          \* self.cache_ttl
    last_request_time,  \* self.last_request_time
    files,              \* the file of each cache key under cache_dir
    pc,                 \* "idle", "loop" (inside the retry loop) or "done"
    params,             \* the parameters of the current _make_request call
    attempt,            \* the loop variable of the retry loop
    response,           \* what the last requests.get of this call did
    result,             \* how the call ended, when pc = "done"
    gets,               \* number of requests.get calls of this call
    failures,           \* how many of them ended in a transient failure
    sleeps,             \* the backoff sleeps of this call, in order
    waited,             \* how long the last _rate_limit of this call slept
    files_before,       \* files when the current call started
    calls,              \* number of calls started
    twin,               \* a second client, constructed without a cache_dir
    threads,            \* the callers that share the client: where each is in _rate_limit
    arg,                \* the arguments of a call of one method, taken alone
    ret,                \* what that call returned: <<>> before it is made
    start,              \* paginate_all: the offset of the next page
    all_papers,         \* paginate_all: the records of the pages so far
    requests,           \* the parameter mappings handed to _make_request, in order
    pages,              \* how _make_request ended for each of them
    page_pc             \* paginate_all: "loop" or "done"

vars ==
    <<clock, rate_limit_delay, max_retries, cache_dir, cache_ttl, last_request_time,
      files, pc, params, attempt, response, result, gets, failures, sleeps, waited,
      files_before, calls, twin, threads, arg, ret, start, all_papers, requests, pages, page_pc>>

\* a method taken alone
pure == <<arg, ret>>

\* a method of the facade and the requests it makes
facade == <<start, all_papers, requests, pages, page_pc>>

config == <<rate_limit_delay, max_retries, cache_dir, cache_ttl>>

\* __init__
Constructed ==
    /\ clock = StartTime
    /\ rate_limit_delay \in Delays
    /\ max_retries \in 0..MaxRetries
    /\ cache_dir \in BOOLEAN
    /\ cache_ttl \in Ttls
    /\ last_request_time = 0
    /\ files = [k \in CacheKeys |-> NoFile]
    /\ pc = "idle"
    /\ params = ParamsA
    /\ attempt = 0
    /\ response = NoResponse
    /\ result = Returned(PyNone)
    /\ gets = 0
    /\ failures = 0
    /\ sleeps = <<>>
    /\ waited = 0
    /\ files_before = files
    /\ calls = 0
    /\ twin = [pc |-> "idle", clock |-> StartTime, last_request_time |-> 0,
               files |-> [k \in CacheKeys |-> NoFile], attempt |-> 0,
               result |-> Returned(PyNone), gets |-> 0, sleeps |-> <<>>]
    /\ threads = [t \in Callers |-> [pc |-> "idle", wake |-> 0, sent |-> <<>>]]

\* no method of the facade has been called
NoRequest ==
    start = 0 /\ all_papers = <<>> /\ requests = <<>> /\ pages = <<>> /\ page_pc = "done"

Init == Constructed /\ arg = <<>> /\ ret = <<>> /\ NoRequest

\* a client constructed with the default arguments, and making no request
Defaults ==
    Constructed /\ rate_limit_delay = 3 /\ max_retries = 3 /\ ~cache_dir /\ cache_ttl = 2

client ==
    <<clock, rate_limit_delay, max_retries, cache_dir, cache_ttl, last_request_time,
      files, pc, params, attempt, response, result, gets, failures, sleeps, waited,
      files_before, calls, twin, threads>>

\* time passes between two calls
Tick ==
    /\ pc = "idle"
    /\ clock < StartTime + MaxClock
    /\ clock' = clock + 1
    /\ UNCHANGED <<config, last_request_time, files, pc, params, attempt, response,
                   result, gets, failures, sleeps, waited, files_before, calls>>

\* _make_request(p), up to the retry loop: the cache is looked up
Call(p) ==
    /\ pc = "idle"
    /\ calls < MaxCalls
    /\ clock < StartTime + MaxClock
    /\ LET cached == _get_cached(cache_dir, files, cache_ttl, clock, _get_cache_key(p))
       IN  /\ pc' = IF IsNone(cached) THEN "loop" ELSE "done"
           /\ result' = IF IsNone(cached) THEN Returned(PyNone) ELSE Returned(cached)
    /\ params' = p
    /\ calls' = calls + 1
    /\ UNCHANGED <<clock, config, last_request_time, files, attempt, response, gets,
                   failures, sleeps, waited, files_before>>

\* one pass of the retry loop: _rate_limit(), requests.get, and what follows
Attempt(resp) ==
    /\ pc = "loop"
    /\ attempt < max_retries
    /\ LET wait == RateLimitSleep(last_request_time, rate_limit_delay, clock)
           sent == clock + wait
           h == HandleResponse(resp, attempt, max_retries)
       IN  /\ waited' = wait
           /\ last_request_time' = sent
           /\ response' = resp
           /\ gets' = gets + 1
           /\ failures' = IF IsTransient(resp) THEN failures + 1 ELSE failures
           /\ sleeps' = IF h.slept THEN Append(sleeps, h.sleep) ELSE sleeps
           /\ clock' = sent + h.sleep
           /\ pc' = IF h.next = "continue" THEN "loop" ELSE "done"
           /\ result' = h.result
           /\ attempt' = IF h.next = "continue" THEN attempt + 1 ELSE attempt
           /\ files' = FilesAfter(h, cache_dir, files, sent, _get_cache_key(params))
    /\ UNCHANGED <<config, params, files_before, calls>>

\* the retry loop ran out: raise Exception(f"Failed after {max_retries} retries")
Exhausted ==
    /\ pc = "loop"
    /\ attempt = max_retries
    /\ pc' = "done"
    /\ result' = Raised("Exception", "Failed after", max_retries, 0)
    /\ UNCHANGED <<clock, config, last_request_time, files, params, attempt, response,
                   gets, failures, sleeps, waited, files_before, calls>>

\* the call is over: its caller has the result, its locals are gone
Return ==
    /\ pc = "done"
    /\ pc' = "idle"
    /\ params' = ParamsA
    /\ attempt' = 0
    /\ response' = NoResponse
    /\ result' = Returned(PyNone)
    /\ gets' = 0
    /\ failures' = 0
    /\ sleeps' = <<>>
    /\ waited' = 0
    /\ files_before' = files
    /\ UNCHANGED <<clock, config, last_request_time, files, calls>>

Next ==
    \/ Tick /\ UNCHANGED <<twin, threads, pure, facade>>
    \/ \E p \in ParamSets : Call(p) /\ UNCHANGED <<twin, threads, pure, facade>>
    \/ \E resp \in Responses : Attempt(resp) /\ UNCHANGED <<twin, threads, pure, facade>>
    \/ Exhausted /\ UNCHANGED <<twin, threads, pure, facade>>
    \/ Return /\ UNCHANGED <<twin, threads, pure, facade>>

Spec == Init /\ [][Next]_vars

(***************************************************************************)
(* The same calls made on two clients that differ in cache_dir alone: the  *)
(* client above, with a cache directory, and `twin`, with none.  Whenever  *)
(* the first client goes to the network, requests.get does the same for    *)
(* both.                                                                   *)
(***************************************************************************)
InitPair == Init /\ cache_dir

TwinTick == twin' = [twin EXCEPT !.clock = @ + 1]

\* the twin makes the call when the first client does not answer from its cache
TwinCall(p) ==
    IF pc' = "loop"
    THEN LET cached == _get_cached(FALSE, twin.files, cache_ttl, twin.clock,
                                   _get_cache_key(p))
         IN  twin' = [twin EXCEPT !.pc = IF IsNone(cached) THEN "loop" ELSE "done",
                                  !.result = IF IsNone(cached) THEN Returned(PyNone)
                                             ELSE Returned(cached)]
    ELSE twin' = twin

TwinAttempt(resp) ==
    /\ twin.pc = "loop"
    /\ twin.attempt < max_retries
    /\ LET wait == RateLimitSleep(twin.last_request_time, rate_limit_delay, twin.clock)
           sent == twin.clock + wait
           h == HandleResponse(resp, twin.attempt, max_retries)
       IN  twin' = [twin EXCEPT
                      !.last_request_time = sent,
                      !.gets = @ + 1,
                      !.sleeps = IF h.slept THEN Append(@, h.sleep) ELSE @,
                      !.clock = sent + h.sleep,
                      !.pc = IF h.next = "continue" THEN "loop" ELSE "done",
                      !.result = h.result,
                      !.attempt = IF h.next = "continue" THEN @ + 1 ELSE @,
                      !.files = FilesAfter(h, FALSE, @, sent, _get_cache_key(params))]

TwinExhausted ==
    /\ twin.pc = "loop"
    /\ twin.attempt = max_retries
    /\ twin' = [twin EXCEPT !.pc = "done",
                            !.result = Raised("Exception", "Failed after", max_retries, 0)]

TwinReturn ==
    twin' = [twin EXCEPT !.pc = "idle", !.attempt = 0, !.result = Returned(PyNone),
                         !.gets = 0, !.sleeps = <<>>]

NextPair ==
    \/ Tick /\ TwinTick /\ UNCHANGED <<threads, pure, facade>>
    \/ \E p \in ParamSets : Call(p) /\ TwinCall(p) /\ UNCHANGED <<threads, pure, facade>>
    \/ \E resp \in Responses : Attempt(resp) /\ TwinAttempt(resp) /\ UNCHANGED <<threads, pure, facade>>
    \/ Exhausted /\ TwinExhausted /\ UNCHANGED <<threads, pure, facade>>
    \/ Return /\ TwinReturn /\ UNCHANGED <<threads, pure, facade>>

SpecPair == InitPair /\ [][NextPair]_vars

(***************************************************************************)
(* Properties of the retry loop.                                           *)
(***************************************************************************)
\* the backoff sleeps after k failed attempts: 1, 2, 4, ..., 2^(k-1)
BackoffSchedule(k) == [i \in 1..k |-> 2 ^ (i - 1)]

\* a 200 response whose feed parses, is no API error and converts
WellFormedFeed(resp) ==
    /\ resp.kind = "response" /\ resp.status_code = 200 /\ resp.xml
    /\ ~IsApiError(resp.entries)
    /\ \A i \in DOMAIN resp.entries :
          /\ resp.entries[i].title.present => ~IsNone(resp.entries[i].title.text)
          /\ resp.entries[i].summary.present => ~IsNone(resp.entries[i].summary.text)
          /\ resp.entries[i].published.present => ~IsNone(resp.entries[i].published.text)
          /\ resp.entries[i].updated.present => ~IsNone(resp.entries[i].updated.text)

\* the record EntryA stands for
RecordA ==
    PyDict([arxiv_id |-> PyStr(<<"1", "2", "v", "3">>),
            base_id |-> PyStr(<<"1", "2">>),
            title |-> PyStr(<<"A", " ", "B">>),
            authors |-> PyList(<<PyStr(<<"N">>), PyNone>>),
            affiliations |-> PyList(<<PyStr(<<"U">>)>>),
            abstract |-> PyStr(<<"S", " ", "T">>),
            \* the day of second 5
            published |-> PyStr(DecimalText(5 \div DayLength)),
            published_datetime |-> PyStr(<<"5", "+", "0", "0", ":", "0", "0">>),
            updated |-> PyStr(<<>>),
            updated_datetime |-> PyNone,
            primary_category |-> PyStr(<<"c">>),
            categories |-> PyList(<<PyStr(<<"c">>)>>),
            doi |-> PyNone,
            journal_ref |-> PyNone,
            comment |-> PyNone,
            arxiv_url |-> PyStr(<<"h", "t", "t", "p", "s", ":", "/", "/", "a", "r", "x", "i",
                                  "v", ".", "o", "r", "g", "/", "a", "b", "s", "/", "1", "2">>),
            pdf_url |-> PyStr(<<"h", "t", "t", "p", "s", ":", "/", "/", "a", "r", "x", "i",
                                "v", ".", "o", "r", "g", "/", "p", "d", "f", "/", "1", "2",
                                ".", "p", "d", "f">>),
            links |-> PyDict([k \in {<<"p", "d", "f">>} |-> PyStr(<<"l">>)])])

\* every attempt of the call so far ended in a transient failure
AllTransient == failures = gets

\* C1: when the first k attempts of a call fail transiently and the next one
\* gets a 200 response with a well-formed feed, the call returns the parsed
\* records of that response, and its backoff sleeps are 1, 2, ..., 2^(k-1).
C1_RetryThenSuccess ==
    (pc = "done" /\ gets = failures + 1 /\ WellFormedFeed(response)) =>
        /\ result.kind = "return"
        /\ result.value.t = "list"
        /\ Len(result.value.v) = Len(response.entries)
        /\ (response.entries = <<EntryA>> => result.value = PyList(<<RecordA>>))
        /\ sleeps = BackoffSchedule(failures)

C1_Witness ==
    /\ pc = "done" /\ gets = 3 /\ failures = 2
    /\ response = Feed(<<EntryA>>)
    /\ sleeps = <<1, 2>>

\* the response is a 4xx status or a 200 whose body is not XML
NonTransientFailure(resp) ==
    /\ resp.kind = "response"
    /\ \/ resp.status_code >= 400 /\ resp.status_code < 500
       \/ resp.status_code = 200 /\ ~resp.xml

\* C2: a 4xx status or an unparseable 200 body ends the call at once with an
\* error: no attempt and no backoff sleep follows it, so a call whose first
\* attempt fails this way makes one attempt and sleeps not at all.
C2_NonTransientFailsAtOnce ==
    NonTransientFailure(response) =>
        /\ pc = "done"
        /\ result.kind = "raise"
        /\ Len(sleeps) = failures
        /\ gets = 1 => sleeps = <<>>

C2_Witness ==
    /\ pc = "done" /\ max_retries = MaxRetries /\ gets = 1
    /\ response = Status(404)
    /\ result.kind = "raise"

\* C3 (as claimed): a call whose max_retries attempts all fail transiently
\* performs max_retries - 1 backoff sleeps, none after its last attempt.
C3_NoSleepAfterLastAttempt ==
    (pc = "done" /\ max_retries >= 1 /\ gets = max_retries /\ AllTransient) =>
        Len(sleeps) = max_retries - 1

\* the error says what the last failure was
NamesCause(r, resp) ==
    CASE resp.kind = "Timeout" -> r.text = "Request timed out after"
      [] resp.kind = "ConnectionError" -> r.text = "Connection failed after"
      [] OTHER -> r.status = resp.status_code

\* C4 (as claimed): when all max_retries attempts fail transiently, the error
\* raised carries the attempt count and names the cause of the last failure.
C4_ExhaustedNamesCause ==
    (pc = "done" /\ max_retries >= 1 /\ gets = max_retries /\ AllTransient) =>
        /\ result.kind = "raise"
        /\ result.retries = max_retries
        /\ NamesCause(result, response)

\* the response is a 200 with one entry whose title has 'Error' in it
ApiErrorResponse(resp) ==
    /\ resp.kind = "response" /\ resp.status_code = 200 /\ resp.xml
    /\ Len(resp.entries) = 1
    /\ resp.entries[1].title.present
    /\ ~IsNone(resp.entries[1].title.text)
    /\ \E i \in 1..(Len(resp.entries[1].title.text.v) - 4) :
          SubSeq(resp.entries[1].title.text.v, i, i + 4) = <<"E", "r", "r", "o", "r">>

\* C5: a 200 response with exactly one entry whose title contains "Error"
\* ends the call with an error: no records are returned, no backoff sleep
\* and no attempt follows it.
C5_ApiErrorIsFatal ==
    ApiErrorResponse(response) =>
        /\ pc = "done"
        /\ result.kind = "raise"
        /\ IsNone(result.value)
        /\ Len(sleeps) = failures

C5_Witness ==
    /\ pc = "done" /\ gets = 1 /\ max_retries = MaxRetries
    /\ response = Feed(<<EntryError>>)
    /\ sleeps = <<>>

(***************************************************************************)
(* Properties of the rate limiter.                                         *)
(***************************************************************************)
\* C6: each _rate_limit call returns no earlier than rate_limit_delay after
\* the previous one returned, and leaves the time of its return in
\* last_request_time.
C6_RateLimitSpacing ==
    [][gets' = gets + 1 =>
          /\ last_request_time' >= last_request_time + rate_limit_delay
          /\ last_request_time' = clock + waited']_vars

C6_Witness ==
    /\ gets = 2 /\ waited = 2 /\ rate_limit_delay = 3
    /\ last_request_time = StartTime + 3

(***************************************************************************)
(* Properties of the cache.                                                *)
(***************************************************************************)
\* the time and the records a cache file holds
StoredTime(f) == DecimalValue(f.content.v.timestamp.v)

StoredResults(f) == f.content.v.results

CurrentKey == _get_cache_key(params)

\* C7: _get_cached returns the stored records when a file for the key exists
\* and now - timestamp < cache_ttl, and None in every other case.
C7_GetCached ==
    \A k \in CacheKeys :
        LET got == _get_cached(cache_dir, files, cache_ttl, clock, k)
        IN  IF cache_dir /\ files[k].exists /\ clock - StoredTime(files[k]) < cache_ttl
            THEN ~IsNone(got) /\ json_dump(got) = StoredResults(files[k])
            ELSE IsNone(got)

\* a call found an expired file for its key and went on to the network
C7_Witness ==
    /\ pc = "loop" /\ gets = 0 /\ cache_dir /\ cache_ttl > 0
    /\ files[CurrentKey].exists
    /\ clock - StoredTime(files[CurrentKey]) = cache_ttl

\* a call has just fetched and stored its records
JustStored == pc = "done" /\ cache_dir /\ gets >= 1 /\ result.kind = "return"

\* C8 (as claimed): with a cache directory, _set_cached followed at once by
\* _get_cached returns the records stored.
C8_PutThenGet ==
    JustStored =>
        _get_cached(cache_dir, files, cache_ttl, clock, CurrentKey) = result.value

\* C8 (amended): with a cache directory and cache_ttl > 0, _set_cached followed
\* at once by _get_cached returns the records stored; and _set_cached replaces
\* whatever file the key had by the new records and the time of the call.
C8_PutThenGetPositiveTtl ==
    JustStored =>
        /\ cache_ttl > 0 =>
              _get_cached(cache_dir, files, cache_ttl, clock, CurrentKey) = result.value
        /\ files[CurrentKey].exists
        /\ StoredTime(files[CurrentKey]) = clock
        /\ json_load(StoredResults(files[CurrentKey])) = result.value

\* a file of an earlier call is replaced, by records with a null in them
C8_Witness ==
    /\ JustStored /\ cache_ttl > 0
    /\ files_before[CurrentKey].exists
    /\ files_before[CurrentKey] # files[CurrentKey]
    /\ StoredTime(files_before[CurrentKey]) < clock
    /\ response = Feed(<<EntryA>>)

\* the call went to the network: it did not answer from the cache
Missed == gets >= 1 \/ result.kind = "raise"

\* C9: without a cache directory _get_cached returns None for every key and
\* _set_cached leaves the files alone, and a call ends as the same call ends
\* on a client with a cache directory that misses its cache: with the same
\* records or the same error, after the same attempts and backoff sleeps.
C9_DisabledCacheSameOutcome ==
    /\ \A k \in CacheKeys :
          IsNone(_get_cached(FALSE, twin.files, cache_ttl, twin.clock, k))
    /\ twin.files = [k \in CacheKeys |-> NoFile]
    /\ pc = "loop" => twin.pc = "loop" /\ twin.attempt = attempt
    /\ (pc = "done" /\ Missed) =>
          /\ twin.pc = "done"
          /\ twin.result = result
          /\ twin.gets = gets
          /\ twin.sleeps = sleeps
          /\ twin.last_request_time = last_request_time

\* the first client has stored the records of its second attempt, the twin
\* has stored nothing, and both return them
C9_Witness ==
    /\ pc = "done" /\ gets = 2 /\ result.kind = "return"
    /\ Len(result.value.v) = 2
    /\ files[CurrentKey].exists
    /\ twin.pc = "done" /\ twin.result = result
    /\ ~twin.files[CurrentKey].exists

\* C10: a call that ends in an error leaves every cache file as it was when
\* the call started.
C10_ErrorLeavesCache ==
    (pc = "done" /\ result.kind = "raise") => files = files_before

\* a parse exception, with a file in the cache
C10_Witness ==
    /\ pc = "done" /\ result.kind = "raise" /\ result.exc = "AttributeError"
    /\ \E k \in CacheKeys : files[k].exists

\* the file of the call's key is expired at the time of the lookup
ExpiredAtLookup(p) ==
    /\ cache_dir
    /\ files[_get_cache_key(p)].exists
    /\ clock - StoredTime(files[_get_cache_key(p)]) >= cache_ttl

\* C11: no step of the client removes a cache file; a file that has expired
\* stays where it is, a lookup that finds it goes on to the network as if it
\* were absent, and the next successful fetch for its key puts the new records
\* and the time of that fetch in its place.
C11_CacheNeverShrinks ==
    [][/\ \A k \in CacheKeys : files[k].exists => files'[k].exists
       /\ (pc = "idle" /\ pc' # "idle" /\ ExpiredAtLookup(params')) =>
              pc' = "loop" /\ files' = files
       /\ (pc = "loop" /\ pc' = "done" /\ result'.kind = "return" /\ cache_dir) =>
              /\ StoredTime(files'[CurrentKey]) = last_request_time'
              /\ json_load(StoredResults(files'[CurrentKey])) = result'.value
              /\ \A k \in CacheKeys \ {CurrentKey} : files'[k] = files[k]]_vars

\* an expired file has been overwritten by the next successful fetch for its
\* key
C11_Witness ==
    /\ JustStored /\ cache_ttl > 0
    /\ files_before[CurrentKey].exists
    /\ StoredTime(files[CurrentKey]) - StoredTime(files_before[CurrentKey]) >= cache_ttl
    /\ response = Feed(<<EntryA, EntryB>>)

(***************************************************************************)
(* _get_cache_key taken alone: it is applied to two parameter mappings.    *)
(***************************************************************************)
\* the longest parameter mapping
MaxParams == 3

\* the pairs the mappings are made of
ParamPairs ==
    { <<"search_query", PyStr(<<"a">>)>>, <<"start", PyInt(0)>>,
      <<"max_results", PyInt(1)>>, <<"max_results", PyInt(2)>>,
      <<"id_list", PyStr(<<"1">>)>> }

\* the mappings: no name twice, in every insertion order
Mappings ==
    UNION { { m \in [1..n -> ParamPairs] :
                \A i, j \in 1..n : i # j => m[i][1] # m[j][1] } : n \in 1..MaxParams }

InitKey == Defaults /\ NoRequest /\ arg \in Mappings \X Mappings /\ ret = <<>>

GetCacheKeys ==
    /\ ret = <<>>
    /\ ret' = <<_get_cache_key(arg[1]), _get_cache_key(arg[2])>>
    /\ UNCHANGED <<client, facade, arg>>

NextKey == GetCacheKeys

SpecKey == InitKey /\ [][NextKey]_vars

\* two Python values are equal
SameValue(x, y) == x.t = y.t /\ x.v = y.v

\* the value a mapping has for a name it holds
ValueOf(m, k) == m[CHOOSE i \in DOMAIN m : m[i][1] = k][2]

Names(m) == {m[i][1] : i \in DOMAIN m}

\* the same key/value pairs, in whatever order
SamePairs(a, b) ==
    /\ Names(a) = Names(b)
    /\ \A k \in Names(a) : SameValue(ValueOf(a, k), ValueOf(b, k))

\* the same pairs but for the value of max_results
DifferOnlyInMaxResults(a, b) ==
    /\ Names(a) = Names(b)
    /\ "max_results" \in Names(a)
    /\ \A k \in Names(a) :
          SameValue(ValueOf(a, k), ValueOf(b, k)) <=> k # "max_results"

\* C12: _get_cache_key gives two mappings with the same key/value pairs the
\* same fingerprint, whatever the order they were inserted in, and gives two
\* mappings that differ only in the value of max_results different ones.
C12_FingerprintOrderIndependent ==
    ret # <<>> =>
        /\ SamePairs(arg[1], arg[2]) => ret[1] = ret[2]
        /\ DifferOnlyInMaxResults(arg[1], arg[2]) => ret[1] # ret[2]

\* three pairs inserted in two different orders have got one fingerprint
C12_Witness ==
    /\ ret # <<>>
    /\ Len(arg[1]) = 3 /\ SamePairs(arg[1], arg[2])
    /\ arg[1][1][1] # arg[2][1][1]
    /\ ret[1] = ret[2]

(***************************************************************************)
(* The facade.  search builds the parameter mapping of a request; the      *)
(* names of sort fields and sort orders are single atoms of text.          *)
(***************************************************************************)
\* the most records one request may ask for
MaxResultsCap == 2000

Min(a, b) == IF a < b THEN a ELSE b

Max(a, b) == IF a > b THEN a ELSE b

\* search: the mapping it hands to _make_request
search(query, max_results, sort_by, sort_order, start_) ==
    << <<"search_query", PyStr(query)>>,
       <<"start", PyInt(start_)>>,
       <<"max_results", PyInt(Min(max_results, MaxResultsCap))>>,
       <<"sortBy", PyStr(sort_by)>>,
       <<"sortOrder", PyStr(sort_order)>> >>

\* Python's truth value of an optional integer: None and 0 are false
Truthy(x) == ~IsNone(x) /\ x.v # 0

(***************************************************************************)
(* paginate_all against an upstream that holds arg.total records for the   *)
(* query, numbered 1..total in the requested order, and answers a request  *)
(* for max_results records from offset start with the records              *)
(* start+1 .. start+max_results it has.                                    *)
(***************************************************************************)
MaxPageSize == 3

MaxTotal == 6

MaxWanted == 4

\* the records upstream returns for a request
Upstream(total, request) ==
    LET from == ValueOf(request, "start").v
        n == ValueOf(request, "max_results").v
    IN  [i \in 1..Max(0, Min(n, total - from)) |-> from + i]

\* the errors a page request can end in
PageErrors ==
    {Raised("Exception", "Failed after", 3, 0), Raised("HTTPError", "", 0, 404)}

PaginateArgs ==
    [op : {"paginate_all"},
     query : {<<"a">>},
     max_results : {PyNone} \cup {PyInt(n) : n \in 0..MaxWanted},
     sort_by : {<<"submittedDate">>},
     sort_order : {<<"descending">>},
     page_size : (1..MaxPageSize) \cup {MaxResultsCap + 1},
     total : 0..MaxTotal]
    \cup
    [op : {"paginate_all"},
     query : {<<"a">>},
     max_results : {PyNone, PyInt(MaxWanted)},
     sort_by : {<<"submittedDate">>},
     sort_order : {<<"descending">>},
     page_size : {MaxResultsCap + 1},
     total : {MaxResultsCap + 1}]

\* the body of the loop after a page that never stops on a short page, only
\* on an empty one
AfterPageUntilEmpty(papers, results, max_results, page_size, offset) ==
    LET more == papers \o results
    IN  IF results = <<>>
        THEN [next |-> "return", all_papers |-> papers, start |-> offset,
              result |-> papers]
        ELSE IF Truthy(max_results) /\ Len(more) >= max_results.v
        THEN [next |-> "return", all_papers |-> more, start |-> offset,
              result |-> SubSeq(more, 1, max_results.v)]
        ELSE [next |-> "continue", all_papers |-> more, start |-> offset + page_size,
              result |-> <<>>]

\* the body of the loop without start += page_size
AfterPageSameOffset(papers, results, max_results, page_size, offset) ==
    LET more == papers \o results
    IN  IF results = <<>>
        THEN [next |-> "return", all_papers |-> papers, start |-> offset,
              result |-> papers]
        ELSE IF Truthy(max_results) /\ Len(more) >= max_results.v
        THEN [next |-> "return", all_papers |-> more, start |-> offset,
              result |-> SubSeq(more, 1, max_results.v)]
        ELSE IF Len(results) < page_size
        THEN [next |-> "return", all_papers |-> more, start |-> offset,
              result |-> more]
        ELSE [next |-> "continue", all_papers |-> more, start |-> offset,
              result |-> <<>>]

\* the body of the loop of paginate_all after search has returned `results`
AfterPage(papers, results, max_results, page_size, offset) ==
    LET more == papers \o results
    IN  IF results = <<>>
        THEN [next |-> "return", all_papers |-> papers, start |-> offset,
              result |-> papers]
        ELSE IF Truthy(max_results) /\ Len(more) >= max_results.v
        THEN [next |-> "return", all_papers |-> more, start |-> offset,
              result |-> SubSeq(more, 1, max_results.v)]
        ELSE IF Len(results) < page_size
        THEN [next |-> "return", all_papers |-> more, start |-> offset,
              result |-> more]
        ELSE [next |-> "continue", all_papers |-> more, start |-> offset + page_size,
              result |-> <<>>]

\* paginate_all that returns the records it has when a page request fails
PageFailureRecovered(papers, error) == Returned(PyList(papers))

\* a page request raises: nothing in paginate_all catches it
PageFailure(papers, error) == error

InitPages ==
    /\ Defaults
    /\ arg \in PaginateArgs
    /\ ret = <<>>
    /\ start = 0 /\ all_papers = <<>> /\ requests = <<>> /\ pages = <<>>
    /\ page_pc = "loop"

\* one turn of the loop: search returns a page
Page ==
    /\ page_pc = "loop"
    /\ LET request == search(arg.query, arg.page_size, arg.sort_by, arg.sort_order, start)
           results == Upstream(arg.total, request)
           a == AfterPage(all_papers, results, arg.max_results, arg.page_size, start)
       IN  /\ requests' = Append(requests, request)
           /\ pages' = Append(pages, Returned(PyList(results)))
           /\ all_papers' = a.all_papers
           /\ start' = a.start
           /\ page_pc' = IF a.next = "continue" THEN "loop" ELSE "done"
           /\ ret' = IF a.next = "continue" THEN <<>> ELSE <<Returned(PyList(a.result))>>
    /\ UNCHANGED <<client, arg>>

\* one turn of the loop: search raises
PageFails(error) ==
    /\ page_pc = "loop"
    /\ requests' = Append(requests,
                          search(arg.query, arg.page_size, arg.sort_by, arg.sort_order, start))
    /\ pages' = Append(pages, error)
    /\ page_pc' = "done"
    /\ ret' = <<PageFailure(all_papers, error)>>
    /\ UNCHANGED <<client, arg, start, all_papers>>

NextPages ==
    \/ Page
    \/ \E error \in PageErrors : PageFails(error)

SpecPages == InitPages /\ [][NextPages]_vars

(***************************************************************************)
(* Properties of paginate_all.                                             *)
(***************************************************************************)
\* the records of a page, and of the first n pages one after the other
PageRecords(outcome) == IF outcome.kind = "return" THEN outcome.value.v ELSE <<>>

RECURSIVE FirstPages(_)
FirstPages(n) == IF n = 0 THEN <<>> ELSE FirstPages(n - 1) \o PageRecords(pages[n])

Offset(request) == ValueOf(request, "start").v

PagesDone == page_pc = "done" /\ ret[1].kind = "return"

\* C13: the page requests have the offsets 0, page_size, 2*page_size, ... in
\* that order; what paginate_all returns is the pages one after the other in
\* the order of the requests (all of them when max_results is unset); and
\* with max_results unset it goes on after every page of page_size records
\* and returns after the first page of fewer.
C13_PagesInOrder ==
    /\ \A i \in DOMAIN requests : Offset(requests[i]) = (i - 1) * arg.page_size
    /\ Len(pages) = Len(requests)
    /\ PagesDone =>
          ret[1].value.v = SubSeq(FirstPages(Len(pages)), 1, Len(ret[1].value.v))
    /\ IsNone(arg.max_results) =>
          /\ \A i \in 1..(Len(pages) - 1) : Len(PageRecords(pages[i])) = arg.page_size
          /\ page_pc = "loop" =>
                \A i \in DOMAIN pages : Len(PageRecords(pages[i])) = arg.page_size
          /\ PagesDone =>
                /\ Len(PageRecords(pages[Len(pages)])) < arg.page_size
                /\ ret[1].value.v = FirstPages(Len(pages))

\* pages of 2, 2 and 1 records with page size 2 have given 5 records after
\* three requests
C13_Witness ==
    /\ PagesDone /\ IsNone(arg.max_results) /\ arg.page_size = 2
    /\ Len(requests) = 3
    /\ ret[1].value.v = <<1, 2, 3, 4, 5>>

\* C14: when max_results = M is given and the records of the pages so far are
\* M or more, paginate_all has returned the first M of them, and it had fewer
\* than M before the last page: no request follows.
C14_TruncatedAtMax ==
    (/\ ~IsNone(arg.max_results)
     /\ Len(pages) >= 1
     /\ pages[Len(pages)].kind = "return"
     /\ Len(FirstPages(Len(pages))) >= arg.max_results.v) =>
        /\ PagesDone
        /\ ret[1].value.v = SubSeq(FirstPages(Len(pages)), 1, arg.max_results.v)
        /\ \A n \in 1..(Len(pages) - 1) : Len(FirstPages(n)) < arg.max_results.v

\* C15: when the request for a page fails, paginate_all ends with the error
\* of that request; the failed request is its last, and nothing of the pages
\* before it is returned.
C15_FailureAborts ==
    /\ \A i \in 1..(Len(pages) - 1) : pages[i].kind = "return"
    /\ (Len(pages) >= 1 /\ pages[Len(pages)].kind = "raise") =>
          /\ page_pc = "done"
          /\ ret = <<pages[Len(pages)]>>
          /\ IsNone(ret[1].value)

\* the third page request has failed after two pages were accumulated
C15_Witness ==
    /\ Len(pages) = 3 /\ pages[3].kind = "raise" /\ pages[3].exc = "HTTPError"
    /\ Len(all_papers) = 4
    /\ page_pc = "done" /\ ret[1].kind = "raise"

(***************************************************************************)
(* _clean_arxiv_id.                                                        *)
(***************************************************************************)
\* [a-z]
LowerLetters ==
    {"a", "b", "c", "d", "e", "f", "g", "h", "i", "j", "k", "l", "m",
     "n", "o", "p", "q", "r", "s", "t", "u", "v", "w", "x", "y", "z"}

AllDigits(s) == \A i \in DOMAIN s : IsDigit(s[i])

\* r'/(\d{4}\.\d{4,5})' matches at position i
NewStyleAt(s, i) ==
    /\ i + 9 <= Len(s)
    /\ s[i] = "/"
    /\ AllDigits(SubSeq(s, i + 1, i + 4))
    /\ s[i + 5] = "."
    /\ AllDigits(SubSeq(s, i + 6, i + 9))

\* re.search(r'/(\d{4}\.\d{4,5})', s): group 1 of the leftmost match, the
\* fifth digit taken when there is one; <<>> when nothing matches
SearchNewStyle(s) ==
    IF \E i \in DOMAIN s : NewStyleAt(s, i)
    THEN LET i == CHOOSE i \in DOMAIN s :
                    NewStyleAt(s, i) /\ \A h \in 1..(i - 1) : ~NewStyleAt(s, h)
             last == IF i + 10 <= Len(s) /\ IsDigit(s[i + 10]) THEN i + 10 ELSE i + 9
         IN  SubSeq(s, i + 1, last)
    ELSE <<>>

\* r'/([a-z-]+/\d{7})' matches at position i, with its second '/' at j
OldStyleAt(s, i, j) ==
    /\ s[i] = "/"
    /\ j > i + 1
    /\ \A k \in (i + 1)..(j - 1) : s[k] \in LowerLetters \cup {"-"}
    /\ s[j] = "/"
    /\ j + 7 <= Len(s)
    /\ AllDigits(SubSeq(s, j + 1, j + 7))

\* re.search(r'/([a-z-]+/\d{7})', s): group 1 of the leftmost match; <<>> when
\* nothing matches
SearchOldStyle(s) ==
    IF \E i, j \in DOMAIN s : OldStyleAt(s, i, j)
    THEN LET i == CHOOSE i \in DOMAIN s :
                    /\ \E j \in DOMAIN s : OldStyleAt(s, i, j)
                    /\ \A h \in 1..(i - 1) : \A j \in DOMAIN s : ~OldStyleAt(s, h, j)
             j == CHOOSE j \in DOMAIN s : OldStyleAt(s, i, j)
         IN  SubSeq(s, i + 1, j + 7)
    ELSE <<>>

_clean_arxiv_id(arxiv_id) ==
    IF Contains(arxiv_id, <<"a", "r", "x", "i", "v", ".", "o", "r", "g">>) /\ SearchNewStyle(arxiv_id) # <<>>
    THEN SearchNewStyle(arxiv_id)
    ELSE IF Contains(arxiv_id, <<"a", "r", "x", "i", "v", ".", "o", "r", "g">>) /\ SearchOldStyle(arxiv_id) # <<>>
    THEN SearchOldStyle(arxiv_id)
    ELSE StripVersion(arxiv_id)

\* the bare identifiers, new style and old style
BareIds ==
    {<<"2", "3", "0", "1", ".", "1", "2", "3", "4">>, <<"2", "3", "0", "1", ".", "1", "2", "3", "4", "5">>,
     <<"q", "u", "a", "n", "t", "-", "p", "h", "/", "0", "2", "0", "1", "0", "8", "2">>,
     <<"m", "a", "t", "h", "/", "0", "3", "0", "9", "1", "3", "6">>,
     <<"m", "a", "t", "h", ".", "G", "T", "/", "0", "3", "0", "9", "1", "3", "6">>}

\* the identifiers get_paper and get_papers are called with: a bare
\* identifier after nothing or after the address of its abstract or of its
\* PDF, and before nothing or a version
GivenIds ==
    [prefix : {<<>>, AbsUrl, <<"h", "t", "t", "p", ":", "/", "/", "a", "r", "x", "i", "v", ".", "o", "r", "g", "/", "p", "d", "f", "/">>},
     bare : BareIds,
     version : {<<>>, <<"v", "2">>, <<"v", "1", "0">>}]

GivenText(g) == g.prefix \o g.bare \o g.version

(***************************************************************************)
(* The methods of the facade, one call of one method at a time.  Each      *)
(* hands one parameter mapping to _make_request (paginate_all one for each *)
(* page); how a request fares in _make_request is the subject of Spec, and *)
(* here the call of _make_request ends in any of its outcomes.             *)
(***************************************************************************)
\* str.join, a half of the parts at a time
RECURSIVE Join(_, _)
Join(sep, parts) ==
    IF Len(parts) = 0 THEN <<>>
    ELSE IF Len(parts) = 1 THEN parts[1]
    ELSE LET half == Len(parts) \div 2
         IN  Join(sep, SubSeq(parts, 1, half)) \o sep
                 \o Join(sep, SubSeq(parts, half + 1, Len(parts)))

\* Python's truth value of an optional text: None and "" are false
TruthyText(x) == ~IsNone(x) /\ x.v # <<>>

\* RecentQuery that joins the two filters with OR
RecentQueryEither(category, query) ==
    LET cat_part == IF TruthyText(category)
                    THEN << <<"c", "a", "t", ":">> \o category.v >> ELSE <<>>
        query_part == IF TruthyText(query)
                      THEN << <<"(">> \o query.v \o <<")">> >> ELSE <<>>
        search_parts == cat_part \o query_part
    IN  Join(<<" ", "O", "R", " ">>,
             IF search_parts = <<>> THEN << <<"a", "l", "l", ":", "a", "l", "l">> >> ELSE search_parts)

\* get_recent: the search query it builds
RecentQuery(category, query) ==
    LET cat_part == IF TruthyText(category)
                    THEN << <<"c", "a", "t", ":">> \o category.v >> ELSE <<>>
        query_part == IF TruthyText(query)
                      THEN << <<"(">> \o query.v \o <<")">> >> ELSE <<>>
        search_parts == cat_part \o query_part
    IN  Join(<<" ", "A", "N", "D", " ">>,
             IF search_parts = <<>> THEN << <<"a", "l", "l", ":", "a", "l", "l">> >> ELSE search_parts)

\* get_recent: the filter by date, applied at time `now` to the records that
\* search returned.  cutoff is a naive datetime; comparing it with an aware
\* one raises TypeError.
RecentFilter(results, days_back, now) ==
    IF IsNone(days_back) THEN Returned(PyList(results))
    ELSE LET cutoff == now - days_back.v * DayLength
             Dated(p) == TruthyText(p.v.published_datetime)
             When(p) == datetime_fromisoformat(p.v.published_datetime.v)
         IN  IF \E i \in DOMAIN results : Dated(results[i]) /\ When(results[i]).aware
             THEN Raised("TypeError", "", 0, 0)
             ELSE Returned(PyList(SelectSeq(results,
                                            LAMBDA p : Dated(p) /\ When(p).t > cutoff)))

\* get_paper: the mapping it hands to _make_request
get_paper(arxiv_id) ==
    << <<"id_list", PyStr(_clean_arxiv_id(arxiv_id))>>, <<"max_results", PyInt(1)>> >>

\* get_papers: the mapping it hands to _make_request
get_papers(arxiv_ids) ==
    LET clean_ids == [i \in DOMAIN arxiv_ids |-> _clean_arxiv_id(arxiv_ids[i])]
    IN  << <<"id_list", PyStr(Join(<<",">>, clean_ids))>>,
           <<"max_results", PyInt(Len(clean_ids))>> >>

\* the numbers of records asked for
Wanted == {0, 1, MaxResultsCap, MaxResultsCap + 1}

\* the records a request can return: with a published timestamp in UTC, at
\* times 2 and 4, with a naive one at time 4, and with none
Records ==
    {_parse_entry([Entry(Elem(<<"h", "/", "1">>)) EXCEPT !.published = Elem(t)]).value :
        t \in {<<"2", "Z">>, <<"4", "Z">>, <<"4">>, <<"x">>}}

\* how a call of _make_request can end
Outcomes ==
    PageErrors \cup {Returned(PyList(<<>>))}
               \cup {Returned(PyList(<<r>>)) : r \in Records}
               \cup {Returned(PyList(<<r, q>>)) : r, q \in Records}

\* the lists of identifiers get_papers is called with
IdLists ==
    {<<>>} \cup {<<GivenText(g)>> : g \in GivenIds}
           \cup {<<GivenText(g), GivenText(h)>> :
                    g, h \in {i \in GivenIds : i.version = <<"v", "2">> /\ i.prefix \in {<<>>, AbsUrl}}}
           \cup {[i \in 1..(MaxResultsCap + 1) |-> <<"1">>]}

FacadeCalls ==
    [op : {"search"}, query : {<<"a">>}, max_results : Wanted,
     sort_by : {<<"relevance">>, <<"submittedDate">>}, sort_order : {<<"descending">>, <<"ascending">>},
     start : {0, 1}]
    \cup [op : {"get_recent"}, category : {PyNone, PyStr(<<>>), PyStr(<<"c">>)},
          query : {PyNone, PyStr(<<>>), PyStr(<<"q">>)}, max_results : Wanted,
          days_back : {PyNone, PyInt(0), PyInt(1)}]
    \cup [op : {"get_paper"}, arxiv_id : {GivenText(g) : g \in GivenIds}]
    \cup [op : {"get_papers"}, arxiv_ids : IdLists]
    \cup [op : {"search_by_author"}, author_name : {<<"n">>}, max_results : Wanted,
          sort_by : {<<"relevance">>, <<"submittedDate">>}, sort_order : {<<"descending">>, <<"ascending">>}]
    \cup [op : {"search_by_title"}, title_query : {<<"t">>}, max_results : Wanted]
    \cup [op : {"search_by_abstract"}, abstract_query : {<<"b">>}, max_results : Wanted]
    \cup PaginateArgs

InitFacade ==
    /\ Defaults
    /\ arg \in FacadeCalls
    /\ ret = <<>>
    /\ start = 0 /\ all_papers = <<>> /\ requests = <<>> /\ pages = <<>>
    /\ page_pc = IF arg.op = "paginate_all" THEN "loop" ELSE "call"

\* a method that returns what _make_request returns for `request`
Forward(request, outcome) ==
    /\ page_pc = "call"
    /\ requests' = <<request>>
    /\ pages' = <<outcome>>
    /\ ret' = <<outcome>>
    /\ page_pc' = "done"
    /\ UNCHANGED <<client, arg, start, all_papers>>

Search(outcome) ==
    /\ arg.op = "search"
    /\ Forward(search(arg.query, arg.max_results, arg.sort_by, arg.sort_order, arg.start),
               outcome)

GetRecent(outcome) ==
    /\ arg.op = "get_recent"
    /\ page_pc = "call"
    /\ requests' = <<search(RecentQuery(arg.category, arg.query), arg.max_results,
                            <<"submittedDate">>, <<"descending">>, 0)>>
    /\ pages' = <<outcome>>
    /\ ret' = IF outcome.kind = "raise" THEN <<outcome>>
              ELSE <<RecentFilter(outcome.value.v, arg.days_back, clock)>>
    /\ page_pc' = "done"
    /\ UNCHANGED <<client, arg, start, all_papers>>

GetPaper(outcome) ==
    /\ arg.op = "get_paper"
    /\ page_pc = "call"
    /\ requests' = <<get_paper(arg.arxiv_id)>>
    /\ pages' = <<outcome>>
    /\ ret' = IF outcome.kind = "raise" THEN <<outcome>>
              ELSE IF outcome.value.v = <<>> THEN <<Returned(PyNone)>>
              ELSE <<Returned(outcome.value.v[1])>>
    /\ page_pc' = "done"
    /\ UNCHANGED <<client, arg, start, all_papers>>

GetPapers(outcome) ==
    /\ arg.op = "get_papers"
    /\ Forward(get_papers(arg.arxiv_ids), outcome)

SearchByAuthor(outcome) ==
    /\ arg.op = "search_by_author"
    /\ Forward(search(<<"a", "u", ":">> \o arg.author_name, arg.max_results, arg.sort_by,
                      arg.sort_order, 0),
               outcome)

SearchByTitle(outcome) ==
    /\ arg.op = "search_by_title"
    /\ Forward(search(<<"t", "i", ":">> \o arg.title_query, arg.max_results, <<"relevance">>,
                      <<"descending">>, 0),
               outcome)

SearchByAbstract(outcome) ==
    /\ arg.op = "search_by_abstract"
    /\ Forward(search(<<"a", "b", "s", ":">> \o arg.abstract_query, arg.max_results, <<"relevance">>,
                      <<"descending">>, 0),
               outcome)

NextFacade ==
    \/ \E outcome \in Outcomes : Search(outcome)
    \/ \E outcome \in Outcomes : GetRecent(outcome)
    \/ \E outcome \in Outcomes : GetPaper(outcome)
    \/ \E outcome \in Outcomes : GetPapers(outcome)
    \/ \E outcome \in Outcomes : SearchByAuthor(outcome)
    \/ \E outcome \in Outcomes : SearchByTitle(outcome)
    \/ \E outcome \in Outcomes : SearchByAbstract(outcome)
    \/ Page
    \/ \E error \in PageErrors : PageFails(error)

SpecFacade == InitFacade /\ [][NextFacade]_vars

(***************************************************************************)
(* Properties of the facade.                                               *)
(***************************************************************************)
Param(request, name) == ValueOf(request, name).v

\* C16: every parameter mapping a method of the facade hands to
\* _make_request has a max_results of 2000 or less.
C16_MaxResultsClamped ==
    \A i \in DOMAIN requests : Param(requests[i], "max_results") <= MaxResultsCap

RecentDone == arg.op = "get_recent" /\ page_pc = "done"

\* a record has a published timestamp, and the time it says
HasPublished(p) == ~IsNone(p.v.published_datetime)

PublishedTime(p) == datetime_fromisoformat(p.v.published_datetime.v).t

\* C17: get_recent with days_back = d, when its request succeeds, returns
\* the records of the page that have a published timestamp later than
\* now - d days, in the order of the page.
C17_RecentFiltersByDate ==
    (RecentDone /\ ~IsNone(arg.days_back) /\ pages[1].kind = "return") =>
        /\ ret[1].kind = "return"
        /\ ret[1].value.v =
              SelectSeq(pages[1].value.v,
                        LAMBDA p : /\ HasPublished(p)
                                   /\ PublishedTime(p) > clock - arg.days_back.v * DayLength)

\* an optional text is given: it is neither None nor empty
Given(x) == ~IsNone(x) /\ Len(x.v) > 0

\* C18: get_recent makes one request: its query is cat:<category> when only
\* a category is given, (<query>) when only a free text is given, the two
\* joined by " AND " when both are, and all:all when neither is (None and the
\* empty text are not given); its sortBy is submittedDate, its sortOrder
\* descending and its start 0.
C18_RecentQuery ==
    RecentDone =>
        /\ Len(requests) = 1
        /\ Param(requests[1], "search_query") =
              (IF Given(arg.category) /\ Given(arg.query)
               THEN <<"c", "a", "t", ":">> \o arg.category.v
                        \o <<" ", "A", "N", "D", " ", "(">> \o arg.query.v \o <<")">>
               ELSE IF Given(arg.category)
               THEN <<"c", "a", "t", ":">> \o arg.category.v
               ELSE IF Given(arg.query)
               THEN <<"(">> \o arg.query.v \o <<")">>
               ELSE <<"a", "l", "l", ":", "a", "l", "l">>)
        /\ Param(requests[1], "sortBy") = <<"submittedDate">>
        /\ Param(requests[1], "sortOrder") = <<"descending">>
        /\ Param(requests[1], "start") = 0

\* a category and a free text have given cat:c AND (q)
C18_Witness ==
    /\ RecentDone
    /\ Given(arg.category) /\ Given(arg.query)
    /\ Param(requests[1], "search_query")
          = <<"c", "a", "t", ":", "c", " ", "A", "N", "D", " ", "(", "q", ")">>

\* the bare identifier a given identifier stands for
BareOf(text) == (CHOOSE g \in GivenIds : GivenText(g) = text).bare

\* C19: the id_list of the request of get_paper is the bare, unversioned
\* identifier of the identifier given, and the id_list of get_papers those of
\* the identifiers given, separated by commas.
C19_IdsReduced ==
    /\ (arg.op = "get_paper" /\ page_pc = "done") =>
          Param(requests[1], "id_list") = BareOf(arg.arxiv_id)
    /\ (arg.op = "get_papers" /\ page_pc = "done" /\ Len(arg.arxiv_ids) = 1) =>
          Param(requests[1], "id_list") = BareOf(arg.arxiv_ids[1])
    /\ (arg.op = "get_papers" /\ page_pc = "done" /\ Len(arg.arxiv_ids) = 2) =>
          Param(requests[1], "id_list")
              = BareOf(arg.arxiv_ids[1]) \o <<",">> \o BareOf(arg.arxiv_ids[2])

(***************************************************************************)
(* _parse_entry taken alone: it is applied to one entry, each of whose     *)
(* sub-elements is absent, empty or filled.                                *)
(***************************************************************************)
\* the entries parsed: every combination of absent, empty and filled
\* sub-elements, and entries that vary the identifier URL, the texts of title
\* and summary, and up to two links
Entries ==
    LET alternate == <<"a", "l", "t", "e", "r", "n", "a", "t", "e">>
        ids == {<<"h", "/", "a", "/", "1", "2", "v", "3">>, <<"h", "/", "1", "2">>,
                <<"h", "/", "v", "1", "v", "2">>, <<"h", "/">>, <<"v", "1">>,
                <<"1", "v">>}
        texts == {<<" ", " ", "A", " ", " ", " ", "S", "\n", "o", " ", " ", "X", " ">>,
                  <<"\t", "A", "\t", "\n", " ", "B", "\n">>,
                  <<" ", "\n">>, <<"A">>}
        link == {Link(rel, PyStr(<<href>>), type) :
                    rel \in {PyNone, PyStr(<<>>), PyStr(alternate), PyStr(<<"r">>)},
                    href \in {"l", "m"},
                    type \in {PyNone, PyStr(ApplicationPdf), PyStr(<<"t">>)}}
        links == {<<>>} \cup {<<l>> : l \in link} \cup (link \X link)
    IN  ([id : {NoElem, EmptyElem, Elem(<<"h", "/", "a", "/", "1", "2", "v", "3">>)},
         title : {NoElem, EmptyElem, Elem(<<" ", "A", " ", "\n", "B", " ">>)},
         summary : {NoElem, EmptyElem, Elem(<<"S", "\n", "\n", "T", " ">>)},
         authors : {<<>>, << [name |-> Elem(<<"N">>), affiliation |-> NoElem],
                            [name |-> EmptyElem, affiliation |-> EmptyElem],
                            [name |-> NoElem, affiliation |-> Elem(<<"U">>)] >>},
         published : {NoElem, EmptyElem, Elem(<<"5", "Z">>), Elem(<<"x">>)},
         updated : {NoElem, EmptyElem, Elem(<<"4">>), Elem(<<"Z">>)},
         primary_category : {NoElem, Elem(<<"c">>)},
         categories : {<<>>, <<PyStr(<<"c">>), PyNone>>},
         links : {<<>>, <<Link(PyStr(<<"r">>), PyStr(<<"l">>), PyStr(ApplicationPdf)),
                          Link(PyNone, PyNone, PyNone),
                          Link(PyStr(<<"r">>), PyStr(<<"m">>), PyNone)>>},
         doi : {NoElem, EmptyElem, Elem(<<"d">>)},
         journal_ref : {NoElem, Elem(<<"j">>)},
         comment : {NoElem, EmptyElem}])
        \cup {[Entry(Elem(i)) EXCEPT !.title = Elem(t), !.summary = Elem(u), !.links = l] :
                  i \in ids, t \in texts, u \in texts, l \in links}

InitParse == Defaults /\ NoRequest /\ arg \in Entries /\ ret = <<>>

ParseEntry ==
    /\ ret = <<>>
    /\ ret' = <<_parse_entry(arg)>>
    /\ UNCHANGED <<client, facade, arg>>

NextParse == ParseEntry

SpecParse == InitParse /\ [][NextParse]_vars

\* a sub-element is present and has a text
Filled(elem) == elem.present /\ ~IsNone(elem.text)

\* C20: _parse_entry returns a record whatever sub-elements are absent or
\* empty: the title and the abstract are the empty text when their element is
\* absent or empty, doi, journal_ref and comment are None, the authors, the
\* categories and the links are empty when the entry has none, and a date
\* that is absent, empty or unparseable gives the timestamp None and the empty
\* display date.
C20_ParseNeverRaises ==
    ret # <<>> =>
        /\ ret[1].kind = "return"
        /\ LET r == ret[1].value.v
           IN  /\ ~Filled(arg.id) => r.base_id = PyStr(<<>>)
               /\ ~Filled(arg.title) => r.title = PyStr(<<>>)
               /\ ~Filled(arg.summary) => r.abstract = PyStr(<<>>)
               /\ arg.authors = <<>> => r.authors = PyList(<<>>)
               /\ arg.categories = <<>> => r.categories = PyList(<<>>)
               /\ arg.links = <<>> => DOMAIN r.links.v = {}
               /\ ~Filled(arg.doi) => IsNone(r.doi)
               /\ ~Filled(arg.journal_ref) => IsNone(r.journal_ref)
               /\ ~Filled(arg.comment) => IsNone(r.comment)
               /\ (~Filled(arg.published) \/ arg.published.text.v = <<"x">>) =>
                     IsNone(r.published_datetime) /\ r.published = PyStr(<<>>)
               /\ (~Filled(arg.updated) \/ arg.updated.text.v = <<"Z">>) =>
                     IsNone(r.updated_datetime) /\ r.updated = PyStr(<<>>)

(***************************************************************************)
(* _rate_limit called by several callers that share the client, with no    *)
(* lock: a caller reads the clock and last_request_time, sleeps when it    *)
(* has to, and then writes the clock to last_request_time; the callers     *)
(* take these steps in any order.  time.sleep returns no earlier than      *)
(* asked.                                                                  *)
(***************************************************************************)
(* The identifier, the links and the texts of a parsed entry.              *)
(***************************************************************************)
\* the record _parse_entry returned
Parsed == ret # <<>> /\ ret[1].kind = "return"

\* C22: for every entry whose identifier element is present, _parse_entry
\* yields a non-empty id (base_id); the id is empty only when the identifier
\* element is missing.
C22_IdNeverEmpty ==
    Parsed => (ret[1].value.v.base_id = PyStr(<<>>) <=> ~arg.id.present)

\* the text ends with 'v' and one or more digits
EndsWithVersion(s) ==
    \E d \in 1..(Len(s) - 1) :
        /\ s[Len(s) - d] = "v"
        /\ \A n \in (Len(s) - d + 1)..Len(s) : IsDigit(s[n])

\* C23: the versioned id is the last '/'-separated segment of the identifier
\* URL, the base id is that segment with one trailing v<digits> suffix
\* removed, and arxiv_url and pdf_url are "https://arxiv.org/abs/" + base_id
\* and "https://arxiv.org/pdf/" + base_id + ".pdf" whatever links the entry
\* carries.
C23_IdsAndUrls ==
    (Parsed /\ Filled(arg.id)) =>
        LET r == ret[1].value.v
            url == arg.id.text.v
            id == r.arxiv_id.v
            base == r.base_id.v
        IN  /\ \A n \in DOMAIN id : id[n] # "/"
            /\ Len(id) <= Len(url)
            /\ SubSeq(url, Len(url) - Len(id) + 1, Len(url)) = id
            /\ Len(id) < Len(url) => url[Len(url) - Len(id)] = "/"
            /\ IF EndsWithVersion(id)
               THEN /\ Len(base) < Len(id)
                    /\ SubSeq(id, 1, Len(base)) = base
                    /\ id[Len(base) + 1] = "v"
                    /\ \A n \in (Len(base) + 2)..Len(id) : IsDigit(id[n])
               ELSE base = id
            /\ r.arxiv_url = PyStr(AbsUrl \o base)
            /\ r.pdf_url = PyStr(PdfUrl \o base \o <<".", "p", "d", "f">>)

\* a versioned identifier was parsed from an entry that carries a pdf link
\* of its own, and the base id has lost no more than one version suffix
C23_Witness ==
    /\ Parsed
    /\ arg.id = Elem(<<"h", "/", "v", "1", "v", "2">>)
    /\ ret[1].value.v.arxiv_id = PyStr(<<"v", "1", "v", "2">>)
    /\ ret[1].value.v.base_id = PyStr(<<"v", "1">>)
    /\ Len(arg.links) = 2
    /\ arg.links[1].type = PyStr(ApplicationPdf)
    /\ ret[1].value.v.links.v[<<"p", "d", "f">>] # ret[1].value.v.pdf_url

\* the key the link classification gives a link: pdf for the media type
\* application/pdf, else abstract for the relation alternate or no relation
\* attribute, else the relation's own name
ExpectedKey(link) ==
    IF link.type = PyStr(ApplicationPdf) THEN <<"p", "d", "f">>
    ELSE IF IsNone(link.rel) \/ link.rel = PyStr(<<"a", "l", "t", "e", "r", "n", "a", "t", "e">>)
         THEN <<"a", "b", "s", "t", "r", "a", "c", "t">>
         ELSE link.rel.v

\* C24: a link of media type application/pdf is stored under pdf whatever its
\* relation, else a link of relation alternate or without a relation under
\* abstract, else under its own relation name; of several links of one key
\* the last in document order is kept.
C24_LinksClassified ==
    Parsed =>
        LET links == ret[1].value.v.links.v
        IN  /\ DOMAIN links = {ExpectedKey(arg.links[n]) : n \in DOMAIN arg.links}
            /\ \A n \in DOMAIN arg.links :
                   (\A m \in DOMAIN arg.links :
                        m > n => ExpectedKey(arg.links[m]) # ExpectedKey(arg.links[n]))
                   => links[ExpectedKey(arg.links[n])] =
                          (IF IsNone(arg.links[n].href) THEN PyStr(<<>>)
                           ELSE arg.links[n].href)

\* two pdf links of a relation other than alternate were parsed: the key is
\* pdf and the second link's address is the one kept
C24_Witness ==
    /\ Parsed
    /\ Len(arg.links) = 2
    /\ arg.links[1] = Link(PyStr(<<"r">>), PyStr(<<"l">>), PyStr(ApplicationPdf))
    /\ arg.links[2] = Link(PyStr(<<"r">>), PyStr(<<"m">>), PyStr(ApplicationPdf))
    /\ DOMAIN ret[1].value.v.links.v = {<<"p", "d", "f">>}
    /\ ret[1].value.v.links.v[<<"p", "d", "f">>] = PyStr(<<"m">>)

\* the characters of a text that are not whitespace, in order
RECURSIVE Visible(_)
Visible(s) ==
    IF Len(s) = 0 THEN <<>>
    ELSE IF IsSpace(s[1]) THEN Visible(Tail(s))
    ELSE <<s[1]>> \o Visible(Tail(s))

\* single spaces only, none at either end, and the visible characters kept
Normalised(out, in) ==
    /\ \A n \in DOMAIN out : IsSpace(out[n]) => out[n] = " "
    /\ \A n \in 1..(Len(out) - 1) : ~(out[n] = " " /\ out[n + 1] = " ")
    /\ Len(out) > 0 => out[1] # " " /\ out[Len(out)] # " "
    /\ Visible(out) = Visible(in)
    /\ \A n \in 1..(Len(in) - 1) :
           (~IsSpace(in[n]) /\ ~IsSpace(in[n + 1])) =>
               \E m \in 1..(Len(out) - 1) :
                   /\ out[m] = in[n] /\ out[m + 1] = in[n + 1]
                   /\ Len(Visible(SubSeq(out, 1, m))) = Len(Visible(SubSeq(in, 1, n)))

\* C25: in every record _parse_entry returns, title and abstract have every
\* run of whitespace collapsed to a single space and no whitespace at either
\* end: "  A   S\no  X " becomes "A S o X".
C25_WhitespaceNormalised ==
    Parsed =>
        LET r == ret[1].value.v
            example == <<" ", " ", "A", " ", " ", " ", "S", "\n", "o", " ", " ", "X", " ">>
            becomes == <<"A", " ", "S", " ", "o", " ", "X">>
        IN  /\ Filled(arg.title) => Normalised(r.title.v, arg.title.text.v)
            /\ Filled(arg.summary) => Normalised(r.abstract.v, arg.summary.text.v)
            /\ arg.title = Elem(example) => r.title = PyStr(becomes)
            /\ arg.summary = Elem(example) => r.abstract = PyStr(becomes)

\* a title with tabs, newlines and a space at the end was parsed
C25_Witness ==
    /\ Parsed
    /\ arg.title = Elem(<<"\t", "A", "\t", "\n", " ", "B", "\n">>)
    /\ ret[1].value.v.title = PyStr(<<"A", " ", "B">>)
    /\ arg.summary = Elem(<<" ", " ", "A", " ", " ", " ", "S", "\n", "o", " ", " ", "X", " ">>)
    /\ ret[1].value.v.abstract = PyStr(<<"A", " ", "S", " ", "o", " ", "X">>)

(***************************************************************************)
InitRace ==
    /\ Constructed /\ max_retries = 3 /\ ~cache_dir /\ cache_ttl = 2
    /\ arg = <<>> /\ ret = <<>> /\ NoRequest

\* elapsed = time.time() - self.last_request_time, and the test of it
Enter(t) ==
    /\ threads[t].pc = "idle"
    /\ Len(threads[t].sent) < MaxCalls
    /\ LET wait == RateLimitSleep(last_request_time, rate_limit_delay, clock)
       IN  threads' = [threads EXCEPT ![t].pc = IF wait > 0 THEN "sleep" ELSE "stamp",
                                      ![t].wake = clock + wait]
    /\ UNCHANGED <<clock, last_request_time>>

\* time.sleep(self.rate_limit_delay - elapsed) returns
Wake(t) ==
    /\ threads[t].pc = "sleep"
    /\ clock >= threads[t].wake
    /\ threads' = [threads EXCEPT ![t].pc = "stamp"]
    /\ UNCHANGED <<clock, last_request_time>>

\* self.last_request_time = time.time(), and the caller sends its request
Stamp(t) ==
    /\ threads[t].pc = "stamp"
    /\ last_request_time' = clock
    /\ threads' = [threads EXCEPT ![t].pc = "idle", ![t].sent = Append(@, clock)]
    /\ UNCHANGED clock

\* time passes
RaceTick ==
    /\ clock < StartTime + MaxClock
    /\ clock' = clock + 1
    /\ UNCHANGED <<last_request_time, threads>>

\* what the callers of _rate_limit leave alone
beside ==
    <<config, files, pc, params, attempt, response, result, gets, failures, sleeps,
      waited, files_before, calls, twin, pure, facade>>

NextRace ==
    \/ \E t \in Callers : Enter(t) /\ UNCHANGED beside
    \/ \E t \in Callers : Wake(t) /\ UNCHANGED beside
    \/ \E t \in Callers : Stamp(t) /\ UNCHANGED beside
    \/ RaceTick /\ UNCHANGED beside

SpecRace == InitRace /\ [][NextRace]_vars

\* C21: any two returns of _rate_limit, of one caller or of two, are
\* rate_limit_delay or more apart.
C21_ConcurrentSpacing ==
    \A t, u \in Callers :
        \A i \in DOMAIN threads[t].sent : \A j \in DOMAIN threads[u].sent :
            (t # u \/ i # j) =>
                \/ threads[t].sent[i] - threads[u].sent[j] >= rate_limit_delay
                \/ threads[u].sent[j] - threads[t].sent[i] >= rate_limit_delay

(***************************************************************************)
(* to_bibtex: the BibTeX entry of one record, or the exception raised.     *)
(***************************************************************************)
\* str.split(): the words between runs of whitespace
RECURSIVE Split(_)
Split(s) ==
    LET t == LStrip(s)
        n == IF \E i \in DOMAIN t : IsSpace(t[i])
             THEN (CHOOSE i \in DOMAIN t :
                       IsSpace(t[i]) /\ \A j \in 1..(i - 1) : ~IsSpace(t[j])) - 1
             ELSE Len(t)
    IN  IF Len(t) = 0 THEN <<>>
        ELSE <<SubSeq(t, 1, n)>> \o Split(SubSeq(t, n + 1, Len(t)))

\* str.lower() of one character
Lower(c) ==
    LET upper == <<"A", "B", "C", "D", "E", "F", "G", "H", "I", "J", "K", "L", "M", "N", "O", "P", "Q", "R", "S", "T", "U", "V", "W", "X", "Y", "Z">>
        lower == <<"a", "b", "c", "d", "e", "f", "g", "h", "i", "j", "k", "l", "m", "n", "o", "p", "q", "r", "s", "t", "u", "v", "w", "x", "y", "z">>
    IN  IF \E i \in 1..26 : upper[i] = c
        THEN lower[CHOOSE i \in 1..26 : upper[i] = c]
        ELSE c

\* re.sub(r'[^a-z0-9]', '', s)
RECURSIVE KeepAlnum(_)
KeepAlnum(s) ==
    IF Len(s) = 0 THEN <<>>
    ELSE IF s[1] \in LowerLetters \/ IsDigit(s[1])
         THEN <<s[1]>> \o KeepAlnum(Tail(s))
         ELSE KeepAlnum(Tail(s))

\* s.replace('{', '\\{').replace('}', '\\}')
RECURSIVE EscapeBraces(_)
EscapeBraces(s) ==
    IF Len(s) = 0 THEN <<>>
    ELSE IF s[1] \in {"{", "}"}
         THEN <<"\\", s[1]>> \o EscapeBraces(Tail(s))
         ELSE <<s[1]>> \o EscapeBraces(Tail(s))

to_bibtex(paper) ==
    LET year == IF paper.published.v # <<>>
                THEN SubSeq(paper.published.v, 1, Min(4, Len(paper.published.v)))
                ELSE <<"0", "0", "0", "0">>
        \* paper['authors'][0].split()[-1] if paper['authors'] else "Unknown"
        first_author == IF Len(paper.authors.v) > 0
                        THEN Split(paper.authors.v[1].v)[Len(Split(paper.authors.v[1].v))]
                        ELSE <<"U", "n", "k", "n", "o", "w", "n">>
        title_word == IF paper.title.v # <<>> THEN Split(paper.title.v)[1] ELSE <<"p", "a", "p", "e", "r">>
        key == first_author \o year \o title_word
        cite_key == KeepAlnum([i \in DOMAIN key |-> Lower(key[i])])
        names == [i \in DOMAIN paper.authors.v |-> paper.authors.v[i].v]
        lines == << <<"@", "a", "r", "t", "i", "c", "l", "e", "{">> \o cite_key \o <<",">>,
                    <<" ", " ", "t", "i", "t", "l", "e", " ", "=", " ", "{", "{">> \o EscapeBraces(paper.title.v) \o <<"}", "}", ",">>,
                    <<" ", " ", "a", "u", "t", "h", "o", "r", " ", "=", " ", "{">> \o Join(<<" ", "a", "n", "d", " ">>, names) \o <<"}", ",">>,
                    <<" ", " ", "y", "e", "a", "r", " ", "=", " ", "{">> \o year \o <<"}", ",">>,
                    <<" ", " ", "e", "p", "r", "i", "n", "t", " ", "=", " ", "{">> \o paper.base_id.v \o <<"}", ",">>,
                    <<" ", " ", "a", "r", "c", "h", "i", "v", "e", "P", "r", "e", "f", "i", "x", " ", "=", " ", "{", "a", "r", "X", "i", "v", "}", ",">>,
                    <<" ", " ", "p", "r", "i", "m", "a", "r", "y", "C", "l", "a", "s", "s", " ", "=", " ", "{">> \o paper.primary_category.v \o <<"}", ",">> >>
                 \o (IF TruthyText(paper.doi)
                     THEN << <<" ", " ", "d", "o", "i", " ", "=", " ", "{">> \o paper.doi.v \o <<"}", ",">> >> ELSE <<>>)
                 \o (IF TruthyText(paper.journal_ref)
                     THEN << <<" ", " ", "j", "o", "u", "r", "n", "a", "l", " ", "=", " ", "{">> \o EscapeBraces(paper.journal_ref.v) \o <<"}", ",">> >>
                     ELSE <<>>)
                 \o << <<" ", " ", "u", "r", "l", " ", "=", " ", "{">> \o paper.arxiv_url.v \o <<"}", ",">>,
                       <<" ", " ", "a", "b", "s", "t", "r", "a", "c", "t", " ", "=", " ", "{">> \o EscapeBraces(paper.abstract.v) \o <<"}">>,
                       <<"}">> >>
    IN  IF Len(paper.authors.v) > 0 /\ IsNone(paper.authors.v[1])
        THEN \* None.split()
             Raised("AttributeError", "", 0, 0)
        ELSE IF \/ Len(paper.authors.v) > 0 /\ Split(paper.authors.v[1].v) = <<>>
                \/ paper.title.v # <<>> /\ Split(paper.title.v) = <<>>
        THEN \* [][-1], [][0]
             Raised("IndexError", "", 0, 0)
        ELSE IF \E i \in DOMAIN paper.authors.v : IsNone(paper.authors.v[i])
        THEN \* ' and '.join of a list that holds None
             Raised("TypeError", "", 0, 0)
        ELSE Returned(PyStr(Join(<<"\n">>, lines)))

\* the records handed to to_bibtex
Papers ==
    [title : {PyStr(<<>>), PyStr(<<"A", " ", "{", "b", "}">>), PyStr(<<"A", "b", " ", "c">>)},
     authors : {PyList(<<>>), PyList(<<PyStr(<<"A", " ", "N">>)>>),
                PyList(<<PyStr(<<"{", "M", "}">>), PyStr(<<"O">>)>>),
                PyList(<<PyStr(<<" ">>)>>), PyList(<<PyStr(<<"N">>), PyNone>>)},
     published : {PyStr(<<>>), PyStr(<<"2", "0", "2", "3", "-", "0", "1">>)},
     base_id : {PyStr(<<"1", "2">>)},
     primary_category : {PyStr(<<"c">>)},
     doi : {PyNone, PyStr(<<"d">>)},
     journal_ref : {PyNone, PyStr(<<>>), PyStr(<<"J", "}", "{">>)},
     arxiv_url : {PyStr(AbsUrl \o <<"1", "2">>)},
     abstract : {PyStr(<<>>), PyStr(<<"{", "x">>)}]

InitBibtex == Defaults /\ NoRequest /\ arg \in Papers /\ ret = <<>>

ToBibtex ==
    /\ ret = <<>>
    /\ ret' = <<to_bibtex(arg)>>
    /\ UNCHANGED <<client, arg, facade>>

SpecBibtex == InitBibtex /\ [][ToBibtex]_vars

\* the braces of a text that no backslash precedes
Unescaped(s) ==
    Cardinality({i \in DOMAIN s : s[i] \in {"{", "}"} /\ (i = 1 \/ s[i - 1] # "\\")})

\* the braces of the BibTeX syntax: those of the entry, two pairs around the
\* title and one pair around each other field
SyntaxBraces(paper) ==
    20 + (IF TruthyText(paper.doi) THEN 2 ELSE 0)
       + (IF TruthyText(paper.journal_ref) THEN 2 ELSE 0)

\* C26: in the output of to_bibtex every '{' and '}' of the record's title,
\* author names, journal reference and abstract is preceded by a backslash:
\* the only braces no backslash precedes are those of the BibTeX syntax.
C26_BracesEscaped ==
    (ret # <<>> /\ ret[1].kind = "return") =>
        Unescaped(ret[1].value.v) = SyntaxBraces(arg)

(***************************************************************************)
(* One caller's session on one client: search and paginate_all one after   *)
(* the other, every request of theirs made by _make_request with its       *)
(* cache lookup, rate limit, retries and backoff.  threads[1].sent is the  *)
(* log of the times at which the caller's requests went out.               *)
(***************************************************************************)
\* the operations of a session
SessionOps ==
    [op : {"search"}, query : {<<"a">>}, max_results : {PyInt(1), PyInt(2)},
     sort_by : {<<"relevance">>}, sort_order : {<<"descending">>}, page_size : {1}]
    \cup
    [op : {"paginate_all"}, query : {<<"a">>}, max_results : {PyNone, PyInt(2)},
     sort_by : {<<"relevance">>}, sort_order : {<<"descending">>}, page_size : 1..2]

\* what requests.get does in a session
SessionResponses ==
    {Timeout, Status(404), Feed(<<>>), Feed(<<EntryA>>), Feed(<<EntryA, EntryB>>)}

\* the parameters of the request the operation under way makes next
SessionParams ==
    IF arg.op = "paginate_all"
    THEN search(arg.query, arg.page_size, arg.sort_by, arg.sort_order, start)
    ELSE search(arg.query, arg.max_results.v, arg.sort_by, arg.sort_order, 0)

\* the cache keys of these requests
SessionKeys ==
    {_get_cache_key(search(<<"a">>, n, <<"relevance">>, <<"descending">>, s)) :
        n \in 1..2, s \in 0..(2 * (MaxCalls + 1))}

InitSession ==
    /\ clock = StartTime
    /\ rate_limit_delay \in Delays
    /\ max_retries \in {0, MaxRetries}
    /\ cache_dir \in BOOLEAN
    /\ cache_ttl = 2
    /\ last_request_time = 0
    /\ files = [k \in SessionKeys |-> NoFile]
    /\ files_before = files
    /\ pc = "idle" /\ params = ParamsA /\ attempt = 0 /\ response = NoResponse
    /\ result = Returned(PyNone)
    /\ gets = 0 /\ failures = 0 /\ sleeps = <<>> /\ waited = 0 /\ calls = 0
    /\ twin = [pc |-> "idle", clock |-> StartTime, last_request_time |-> 0,
               files |-> [k \in CacheKeys |-> NoFile], attempt |-> 0,
               result |-> Returned(PyNone), gets |-> 0, sleeps |-> <<>>]
    /\ threads = [t \in Callers |-> [pc |-> "idle", wake |-> 0, sent |-> <<>>]]
    /\ arg = <<>> /\ ret = <<>>
    /\ start = 0 /\ all_papers = <<>> /\ requests = <<>> /\ pages = <<>>
    /\ page_pc = "done"

\* the caller starts an operation
Begin(op) ==
    /\ pc = "idle" /\ page_pc = "done"
    /\ calls < MaxCalls
    /\ arg' = op
    /\ ret' = <<>>
    /\ start' = 0 /\ all_papers' = <<>> /\ requests' = <<>> /\ pages' = <<>>
    /\ page_pc' = "loop"
    /\ UNCHANGED <<client>>

\* the operation calls _make_request
SessionRequest ==
    /\ page_pc = "loop"
    /\ Call(SessionParams)
    /\ requests' = Append(requests, SessionParams)
    /\ UNCHANGED <<twin, threads, pure, start, all_papers, pages, page_pc>>

\* one pass of the retry loop; the request goes out when _rate_limit returns
SessionAttempt(resp) ==
    /\ Attempt(resp)
    /\ threads' = [threads EXCEPT ![1].sent = Append(@, last_request_time')]
    /\ UNCHANGED <<twin, pure, facade>>

\* _make_request is over: search returns or raises, and paginate_all goes
\* through the body of its loop
SessionReturn ==
    /\ page_pc = "loop"
    /\ Return
    /\ pages' = Append(pages, result)
    /\ IF result.kind = "raise"
       THEN /\ page_pc' = "done"
            /\ ret' = <<PageFailure(all_papers, result)>>
            /\ UNCHANGED <<start, all_papers>>
       ELSE IF arg.op = "paginate_all"
       THEN LET a == AfterPage(all_papers, result.value.v, arg.max_results,
                               arg.page_size, start)
            IN  /\ all_papers' = a.all_papers
                /\ start' = a.start
                /\ page_pc' = IF a.next = "continue" THEN "loop" ELSE "done"
                /\ ret' = IF a.next = "continue" THEN <<>>
                          ELSE <<Returned(PyList(a.result))>>
       ELSE /\ page_pc' = "done"
            /\ ret' = <<result>>
            /\ UNCHANGED <<start, all_papers>>
    /\ UNCHANGED <<twin, threads, arg, requests>>

NextSession ==
    \/ Tick /\ UNCHANGED <<twin, threads, pure, facade>>
    \/ \E op \in SessionOps : Begin(op)
    \/ SessionRequest
    \/ \E resp \in SessionResponses : SessionAttempt(resp)
    \/ Exhausted /\ UNCHANGED <<twin, threads, pure, facade>>
    \/ SessionReturn

SpecSession == InitSession /\ [][NextSession]_vars

\* C27: across the operations of one caller, retries and the pages of
\* paginate_all included, any two requests go out rate_limit_delay or more
\* apart.
C27_SessionSpacing ==
    \A i, j \in DOMAIN threads[1].sent :
        i < j => threads[1].sent[j] - threads[1].sent[i] >= rate_limit_delay

\* paginate_all has asked for its second page after a retry: three requests
\* went out, the last one exactly rate_limit_delay after the one before it
C27_Witness ==
    /\ Len(threads[1].sent) = 3
    /\ rate_limit_delay = 3
    /\ arg # <<>> /\ arg.op = "paginate_all"
    /\ Len(requests) = 2 /\ Len(pages) = 1
    /\ threads[1].sent[Len(threads[1].sent)]
           = threads[1].sent[Len(threads[1].sent) - 1] + rate_limit_delay

(***************************************************************************)
(* More properties of _make_request, its rate limit, cache and retries.    *)
(***************************************************************************)
\* C28: _rate_limit measures from the last send: a call made rate_limit_delay
\* or more after it does not sleep and the request goes out at once, however
\* long the client was idle, and a call made sooner sleeps until
\* rate_limit_delay after it, so that the request after an idle period is
\* followed by one a full delay later.
C28_MeasuredFromLastSend ==
    [][gets' = gets + 1 =>
          IF clock - last_request_time >= rate_limit_delay
          THEN waited' = 0 /\ last_request_time' = clock
          ELSE /\ waited' > 0
               /\ last_request_time' = last_request_time + rate_limit_delay]_vars

\* after an idle time longer than the delay a request went out, and the
\* request of the next call, made at once, waited the whole delay
C28_Witness ==
    /\ calls = 2 /\ gets = 1
    /\ rate_limit_delay = 3
    /\ waited = rate_limit_delay
    /\ last_request_time = StartTime + 1 + rate_limit_delay

\* the file of the request's key is within the TTL at the time of the lookup
FreshAtLookup(p) ==
    /\ cache_dir
    /\ files[_get_cache_key(p)].exists
    /\ clock - StoredTime(files[_get_cache_key(p)]) < cache_ttl

\* C29: with a cache directory a successful fetch stores the records it
\* returns under the key of its parameters, and a call with the same
\* parameters made within the TTL returns records equal to them with no
\* network request, no rate-limit wait and no backoff sleep, and leaves
\* last_request_time and the cache files as they were.
C29_RepeatWithinTtl ==
    [][/\ (pc = "loop" /\ pc' = "done" /\ result'.kind = "return" /\ cache_dir) =>
              /\ files'[CurrentKey].exists
              /\ json_load(StoredResults(files'[CurrentKey])) = result'.value
       /\ (pc = "idle" /\ pc' # "idle" /\ FreshAtLookup(params')) =>
              /\ pc' = "done"
              /\ result' = Returned(json_load(StoredResults(files[_get_cache_key(params')])))
              /\ gets' = 0 /\ sleeps' = <<>> /\ waited' = 0
              /\ UNCHANGED <<clock, last_request_time, files>>
       /\ (pc = "done" /\ gets = 0 /\ result.kind = "return") =>
              UNCHANGED <<clock, last_request_time, files>>]_vars

\* the second call with the parameters of the first, a second after the
\* first fetched two records, has them from the cache
C29_Witness ==
    /\ pc = "done" /\ calls = 2 /\ gets = 0 /\ cache_dir
    /\ result.kind = "return"
    /\ Len(result.value.v) = 2
    /\ files[CurrentKey].exists
    /\ json_load(StoredResults(files[CurrentKey])) = result.value
    /\ StoredTime(files[CurrentKey]) = last_request_time
    /\ clock = last_request_time + 1
    /\ sleeps = <<>> /\ waited = 0

\* C30: a call makes max_retries attempts at most; the backoff sleep after the
\* attempt of index i (the first is 0) is 2^i seconds, and the next pass of
\* the loop starts when it is over; and with max_retries = 0 a call that
\* misses the cache makes no attempt and raises "Failed after 0 retries".
C30_AttemptsAndBackoff ==
    [][/\ gets' <= max_retries
       /\ gets' = gets + 1 =>
              /\ gets < max_retries
              /\ \/ sleeps' = sleeps /\ clock' = last_request_time'
                 \/ /\ sleeps' = Append(sleeps, 2^gets)
                    /\ clock' = last_request_time' + 2^gets
       /\ gets' # gets + 1 => sleeps' = sleeps \/ sleeps' = <<>>
       /\ (pc = "loop" /\ max_retries = 0) =>
              /\ pc' = "done" /\ gets' = 0
              /\ result' = Raised("Exception", "Failed after", 0, 0)
              /\ UNCHANGED <<clock, last_request_time, files>>]_vars

\* every attempt of a call got a 5xx status: as many attempts as max_retries
\* allows, and a sleep after each of them, the last one of 2^(max_retries - 1)
C30_Witness ==
    /\ pc = "done" /\ max_retries = MaxRetries
    /\ gets = MaxRetries
    /\ Len(sleeps) = MaxRetries
    /\ sleeps[1] = 1
    /\ sleeps[MaxRetries] = 2^(MaxRetries - 1)
    /\ result.kind = "raise"

\* C31: a response whose status is neither 200 nor 500 or more (1xx, 2xx
\* other than 200 and 3xx as well as 4xx) ends the call at once with an
\* error; no attempt follows it, and every attempt of a call after its first
\* comes after a backoff sleep.
C31_OtherStatusIsFatal ==
    [][gets' = gets + 1 =>
          /\ (/\ response'.kind = "response"
              /\ response'.status_code # 200
              /\ response'.status_code < 500) =>
                 pc' = "done" /\ result'.kind = "raise"
          /\ Len(sleeps) = gets]_vars

(***************************************************************************)
(* More properties of paginate_all.                                        *)
(***************************************************************************)
\* the number of records of the pages before page n
RECURSIVE RecordsBefore(_)
RecordsBefore(n) ==
    IF n <= 1 THEN 0 ELSE RecordsBefore(n - 1) + Len(PageRecords(pages[n - 1]))

\* C32: with max_results unset and every page request answered, paginate_all
\* returns all the records upstream holds, for every page_size of 1 or more,
\* those above the clamp of 2000 included: each request starts where the
\* records of the pages before it end, and it does not return while upstream
\* has records it has not returned.
C32_ReturnsEverything ==
    (IsNone(arg.max_results) /\ \A n \in DOMAIN pages : pages[n].kind = "return") =>
        /\ \A n \in DOMAIN requests : Offset(requests[n]) = RecordsBefore(n)
        /\ PagesDone => ret[1].value.v = [i \in 1..arg.total |-> i]

\* C33: whenever max_results is given as an integer M of 0 or more, 0
\* included, the list paginate_all returns has M records at most.
C33_AtMostMax ==
    (PagesDone /\ ~IsNone(arg.max_results)) =>
        Len(ret[1].value.v) <= arg.max_results.v

\* paginate_all when every turn of its loop that can be taken is taken in
\* the end
FairPages == SpecPages /\ WF_vars(Page)

\* every page request so far was answered
AllAnswered == \A n \in DOMAIN pages : pages[n].kind = "return"

\* ceil(total / page_size) + 1
MostRequests == (arg.total + arg.page_size - 1) \div arg.page_size + 1

\* the last page has fewer records than page_size, none included
LastPageShort == Len(PageRecords(pages[Len(pages)])) < arg.page_size

\* C34 (as claimed): against an upstream of finitely many records, with every
\* page request answered, paginate_all returns after ceil(total/page_size) + 1
\* requests at most, and its last request is answered by a short page or an
\* empty one.
C34_Terminates ==
    /\ [](AllAnswered => Len(requests) <= MostRequests)
    /\ <>(page_pc = "done")
    /\ [](PagesDone => LastPageShort)

\* C34 (amended): against an upstream of finitely many records, with every
\* page request answered, paginate_all returns after ceil(total/page_size) + 1
\* requests at most, and its last request is answered by a short page, an
\* empty one, or the page with which the records reach a max_results of 1 or
\* more.
C34_TerminatesOrTruncates ==
    /\ [](AllAnswered => Len(requests) <= MostRequests)
    /\ <>(page_pc = "done")
    /\ [](PagesDone =>
             \/ LastPageShort
             \/ /\ Truthy(arg.max_results)
                /\ Len(FirstPages(Len(pages))) >= arg.max_results.v)

\* upstream holds two full pages: the third request is answered by an empty
\* page and paginate_all returns the six records
C34_Witness ==
    /\ PagesDone /\ IsNone(arg.max_results)
    /\ arg.total = 2 * arg.page_size /\ arg.total > 0
    /\ Len(requests) = MostRequests
    /\ PageRecords(pages[Len(pages)]) = <<>>
    /\ Len(ret[1].value.v) = arg.total

(***************************************************************************)
(* paginate_all with a cache directory, and the same paginate_all once     *)
(* more after a page request of the first has failed.  requests and pages  *)
(* are the log of both invocations: the page that failed is the one entry  *)
(* of pages that is an error, and what follows it is the second            *)
(* invocation.                                                             *)
(***************************************************************************)
MaxRequests == 4

InitResume ==
    /\ clock = StartTime
    /\ rate_limit_delay = 1
    /\ max_retries \in 0..1
    /\ cache_dir = TRUE
    /\ cache_ttl \in {2, 4}
    /\ last_request_time = 0
    /\ files = [k \in SessionKeys |-> NoFile]
    /\ files_before = files
    /\ pc = "idle" /\ params = ParamsA /\ attempt = 0 /\ response = NoResponse
    /\ result = Returned(PyNone)
    /\ gets = 0 /\ failures = 0 /\ sleeps = <<>> /\ waited = 0 /\ calls = 0
    /\ twin = [pc |-> "idle", clock |-> StartTime, last_request_time |-> 0,
               files |-> [k \in CacheKeys |-> NoFile], attempt |-> 0,
               result |-> Returned(PyNone), gets |-> 0, sleeps |-> <<>>]
    /\ threads = [t \in Callers |-> [pc |-> "idle", wake |-> 0, sent |-> <<>>]]
    /\ arg \in {op \in SessionOps : op.op = "paginate_all" /\ IsNone(op.max_results)}
    /\ ret = <<>>
    /\ start = 0 /\ all_papers = <<>> /\ requests = <<>> /\ pages = <<>>
    /\ page_pc = "loop"

\* search calls _make_request, which looks the request up in the cache
ResumeRequest ==
    /\ page_pc = "loop" /\ pc = "idle"
    /\ Len(requests) < MaxRequests
    /\ LET cached == _get_cached(cache_dir, files, cache_ttl, clock,
                                 _get_cache_key(SessionParams))
       IN  /\ pc' = IF IsNone(cached) THEN "loop" ELSE "done"
           /\ result' = IF IsNone(cached) THEN Returned(PyNone) ELSE Returned(cached)
    /\ params' = SessionParams
    /\ calls' = calls + 1
    /\ requests' = Append(requests, SessionParams)
    /\ UNCHANGED <<clock, config, last_request_time, files, attempt, response, gets,
                   failures, sleeps, waited, files_before, twin, threads, pure, start,
                   all_papers, pages, page_pc>>

\* the caller calls paginate_all with the same arguments again, once, after
\* it has raised
Again ==
    /\ pc = "idle" /\ page_pc = "done"
    /\ ret[1].kind = "raise"
    /\ Cardinality({n \in DOMAIN pages : pages[n].kind = "raise"}) = 1
    /\ ret' = <<>>
    /\ start' = 0 /\ all_papers' = <<>>
    /\ page_pc' = "loop"
    /\ UNCHANGED <<client, arg, requests, pages>>

NextResume ==
    \/ Tick /\ UNCHANGED <<twin, threads, pure, facade>>
    \/ ResumeRequest
    \/ \E resp \in SessionResponses : SessionAttempt(resp)
    \/ Exhausted /\ UNCHANGED <<twin, threads, pure, facade>>
    \/ SessionReturn
    \/ Again

SpecResume == InitResume /\ [][NextResume]_vars

\* the place in the log of the page request that failed
Failed == CHOOSE n \in DOMAIN pages : pages[n].kind = "raise"

\* paginate_all is in its second invocation
Reinvoked ==
    /\ \E n \in DOMAIN pages : pages[n].kind = "raise"
    /\ Len(requests) >= Failed
    /\ page_pc = "loop" \/ Len(pages) > Failed

\* C35: with a cache directory, when paginate_all aborts because the request
\* for page k fails, the files of the pages 0..k-1 stay in the cache with the
\* records of those pages; and when paginate_all is called again with the same
\* arguments, each of these pages that is within the TTL is answered from its
\* file, with the same records and no network request, and the request for
\* page k goes to the network.
C35_ResumesFromCache ==
    [][/\ (/\ page_pc = "loop" /\ page_pc' = "done" /\ ret'[1].kind = "raise"
           /\ \A n \in DOMAIN pages : pages[n].kind = "return") =>
              /\ files' = files
              /\ \A n \in DOMAIN pages :
                    /\ files[_get_cache_key(requests[n])].exists
                    /\ json_load(StoredResults(files[_get_cache_key(requests[n])]))
                           = pages[n].value
       /\ (\E n \in DOMAIN pages : pages[n].kind = "raise") =>
              \A n \in 1..(Failed - 1) : files'[_get_cache_key(requests[n])].exists
       /\ (Reinvoked /\ requests' # requests /\ Len(requests') <= 2 * Failed) =>
              LET n == Len(requests') - Failed
                  file == files[_get_cache_key(requests'[Len(requests')])]
              IN  /\ requests'[Len(requests')] = requests[n]
                  /\ (n < Failed /\ clock - StoredTime(file) < cache_ttl) =>
                         /\ pc' = "done"
                         /\ result' = pages[n]
                         /\ threads' = threads /\ last_request_time' = last_request_time
                  /\ n = Failed => pc' = "loop"]_vars

\* the second page of the first invocation failed; the second invocation had
\* its first page from the cache, with no request sent, and its request for
\* the second page has gone out
C35_Witness ==
    /\ Len(pages) = 3 /\ Len(requests) = 4
    /\ pages[2].kind = "raise"
    /\ pages[3] = pages[1]
    /\ requests[4] = requests[2]
    /\ pc = "done" /\ gets = 1
    /\ Len(threads[1].sent) = 3

(***************************************************************************)
(* _get_cached on a file of any content.  A content is a JSON value, or    *)
(* the text that json.load cannot decode.                                  *)
(***************************************************************************)
\* the body of _get_cached for a file that exists: the value returned, or the
\* exception that leaves it
ReadCached(content, ttl, now) ==
    IF content.j = "invalid"
    THEN \* json.JSONDecodeError, caught
         Returned(PyNone)
    ELSE LET cached == json_load(content)
         IN  IF cached.t # "dict"
             THEN \* cached['timestamp'] of a list, a str, a number or None
                  Raised("TypeError", "", 0, 0)
             ELSE IF "timestamp" \notin DOMAIN cached.v
             THEN \* KeyError, caught
                  Returned(PyNone)
             ELSE IF cached.v.timestamp.t # "str"
             THEN Raised("TypeError", "", 0, 0)
             ELSE IF cached.v.timestamp.v = <<>> \/ ~AllDigits(cached.v.timestamp.v)
             THEN \* datetime.fromisoformat
                  Raised("ValueError", "", 0, 0)
             ELSE IF now - fromisoformat(cached.v.timestamp.v) < ttl
             THEN IF "results" \in DOMAIN cached.v
                  THEN Returned(cached.v.results)
                  ELSE \* KeyError, caught
                       Returned(PyNone)
             ELSE Returned(PyNone)

\* what the file of the key can hold, one content after the other
CacheContents ==
    <<[j |-> "invalid"],
     json_dump(PyNone), json_dump(PyStr(<<"s">>)), json_dump(PyInt(5)),
     json_dump(PyList(<<>>)),
     json_dump(PyDict([results |-> PyList(<<>>)])),
     json_dump(PyDict([timestamp |-> PyStr(DecimalText(StartTime))])),
     json_dump(PyDict([timestamp |-> PyStr(<<"x">>), results |-> PyList(<<>>)])),
     json_dump(PyDict([timestamp |-> PyStr(<<>>), results |-> PyList(<<>>)])),
     json_dump(PyDict([timestamp |-> PyInt(StartTime), results |-> PyList(<<>>)])),
     json_dump(PyDict([timestamp |-> PyNone, results |-> PyList(<<>>)])),
     json_dump(PyDict([timestamp |-> PyStr(DecimalText(StartTime)),
                       results |-> PyList(<<PyStr(<<"r">>)>>)]))>>

InitRead ==
    /\ Defaults /\ NoRequest
    /\ arg \in [file : DOMAIN CacheContents, ttl : Ttls,
                now : StartTime..(StartTime + MaxClock)]
    /\ ret = <<>>

GetCached ==
    /\ ret = <<>>
    /\ ret' = <<ReadCached(CacheContents[arg.file], arg.ttl, arg.now)>>
    /\ UNCHANGED <<client, arg, facade>>

SpecRead == InitRead /\ [][GetCached]_vars

\* the content is a file _set_cached has written: an object with an ISO
\* timestamp and the results
Interpretable(content) ==
    /\ content.j = "object"
    /\ {"timestamp", "results"} \subseteq DOMAIN content.v
    /\ content.v.timestamp.j = "string"
    /\ content.v.timestamp.v # <<>>
    /\ AllDigits(content.v.timestamp.v)

\* C36: a cache file that cannot be interpreted (no valid JSON, no timestamp
\* or no results field, a timestamp that is no ISO date, a top-level value
\* that is no object) is as good as absent: _get_cached returns None and
\* raises nothing, so that the request goes to the network.
C36_CorruptIsAbsent ==
    (ret # <<>> /\ ~Interpretable(CacheContents[arg.file])) => ret[1] = Returned(PyNone)

(***************************************************************************)
(* _set_cached and _get_cached of several callers on one key.  The file is *)
(* a text here.  open(cache_file, 'w') empties it; json.dump fills a       *)
(* buffer of BufferSize characters that goes to the file, at the writer's  *)
(* own offset, each time it is full and once more when the file is closed. *)
(* json.load reads the file as it is at that moment.  In this              *)
(* specification files[k].content is the text of the file, threads[t].sent *)
(* the text caller t has written to it, and requests the callers whose     *)
(* _set_cached has returned, in that order.                                *)
(***************************************************************************)
\* io.DEFAULT_BUFFER_SIZE, scaled down
BufferSize == 2

\* the records of one list: each a letter
MaxRecords == 2

RecordLists == UNION {[1..n -> {"a", "b"}] : n \in 0..MaxRecords}

\* the key all the callers use
SharedKey == _get_cache_key(ParamsA)

\* the text json.dump writes for {'timestamp': ..., 'results': records}
CacheText(now, records) ==
    <<"{">> \o isoformat(now) \o <<"[">> \o records \o <<"]", "}">>

\* the position of the first '[' of the text, 0 without one
OpenBracket(text) ==
    IF \E i \in DOMAIN text : text[i] = "["
    THEN CHOOSE i \in DOMAIN text :
             text[i] = "[" /\ \A j \in 1..(i - 1) : text[j] # "["
    ELSE 0

\* json.load of the text: the JSON value it denotes, invalid when it denotes
\* none (an empty file, a text cut short, a text with a gap or with
\* something after its end)
CacheValue(text) ==
    LET b == OpenBracket(text)
        n == Len(text)
    IN  IF /\ b > 2
           /\ n >= b + 2
           /\ text[1] = "{"
           /\ AllDigits(SubSeq(text, 2, b - 1))
           /\ text[n - 1] = "]"
           /\ text[n] = "}"
           /\ \A i \in (b + 1)..(n - 2) : text[i] \in {"a", "b"}
        THEN json_dump(PyDict([timestamp |-> PyStr(SubSeq(text, 2, b - 1)),
                               results |-> PyList([i \in 1..(n - b - 2) |->
                                                      PyStr(<<text[b + i]>>)])]))
        ELSE [j |-> "invalid"]

\* the list of papers _set_cached is given
Results(records) == PyList([i \in DOMAIN records |-> PyStr(<<records[i]>>)])

\* write(2) of `piece` at offset `pos` of a file holding `text`: a gap left
\* before the offset reads as NUL
WriteAt(text, pos, piece) ==
    [i \in 1..Max(Len(text), pos + Len(piece)) |->
        IF i > pos /\ i <= pos + Len(piece) THEN piece[i - pos]
        ELSE IF i <= Len(text) THEN text[i]
        ELSE "NUL"]

InitShared ==
    /\ Constructed /\ rate_limit_delay = 3 /\ max_retries = 3
    /\ cache_dir = TRUE /\ cache_ttl = 2
    /\ arg \in [Callers -> RecordLists]
    /\ ret = <<>>
    /\ NoRequest

\* with open(cache_file, 'w') as f: the file is created or emptied
Open(t) ==
    /\ threads[t].pc = "idle"
    /\ threads' = [threads EXCEPT ![t].pc = "open"]
    /\ files' = [files EXCEPT ![SharedKey] = File(<<>>)]
    /\ UNCHANGED requests

\* the buffer of json.dump is full: it goes to the file
Flush(t) ==
    LET text == CacheText(clock, arg[t])
        pos == Len(threads[t].sent)
    IN  /\ threads[t].pc = "open"
        /\ pos + BufferSize <= Len(text)
        /\ LET piece == SubSeq(text, pos + 1, pos + BufferSize)
           IN  /\ threads' = [threads EXCEPT ![t].sent = @ \o piece]
               /\ files' = [files EXCEPT ![SharedKey] =
                               File(WriteAt(files[SharedKey].content, pos, piece))]
        /\ UNCHANGED requests

\* the end of the with block: what is left in the buffer goes to the file,
\* and _set_cached returns
Close(t) ==
    LET text == CacheText(clock, arg[t])
        pos == Len(threads[t].sent)
    IN  /\ threads[t].pc = "open"
        /\ pos + BufferSize > Len(text)
        /\ LET piece == SubSeq(text, pos + 1, Len(text))
           IN  /\ threads' = [threads EXCEPT ![t].sent = @ \o piece, ![t].pc = "closed"]
               /\ files' = [files EXCEPT ![SharedKey] =
                               File(WriteAt(files[SharedKey].content, pos, piece))]
        /\ requests' = Append(requests, t)

\* _get_cached of the key, by one more caller
Read ==
    /\ ret = <<>>
    /\ ret' = <<IF files[SharedKey].exists
                THEN ReadCached(CacheValue(files[SharedKey].content), cache_ttl, clock)
                ELSE Returned(PyNone)>>
    /\ UNCHANGED <<files, threads, requests>>

NextShared ==
    \/ /\ \E t \in Callers : Open(t) \/ Flush(t) \/ Close(t)
       /\ UNCHANGED ret
    \/ Read

SpecShared ==
    InitShared /\ [][NextShared /\ UNCHANGED <<clock, config, last_request_time, pc, params,
                                               attempt, response, result, gets, failures,
                                               sleeps, waited, files_before, calls, twin,
                                               arg, start, all_papers, pages,
                                               page_pc>>]_vars

\* every _set_cached has returned
AllClosed == \A t \in Callers : threads[t].pc = "closed"

\* C37: a reader beside the writers of one key obtains None or the whole
\* record list of a put that has begun, never a list that no put was given
\* and never an exception; once every writer has finished, the file holds the
\* records of the writer that finished last
C37_ReadersSeeWholePuts ==
    /\ ret # <<>> =>
          \/ ret[1] = Returned(PyNone)
          \/ \E t \in Callers :
                threads[t].pc # "idle" /\ ret[1] = Returned(Results(arg[t]))
    /\ AllClosed =>
          /\ files[SharedKey].exists
          /\ CacheValue(files[SharedKey].content)
                = CacheValue(CacheText(clock, arg[requests[Len(requests)]]))

====
